---- MODULE Spec2Model ----
(***************************************************************************)
(* Contour mock server: the route/response assembler (createHandler), the  *)
(* request-body validator, the schema resolver and the in-memory State     *)
(* Store, as a state machine.  Strings the code takes apart (path          *)
(* templates, $ref pointers, parameter names) are sequences of one-        *)
(* character strings; JSON objects are functions from field names to       *)
(* values.                                                                 *)
(***************************************************************************)
EXTENDS Integers, Sequences, FiniteSets, TLC

\* ------------------------------------------------------------------ bounds
\* number of identifiers the uuid sources hand out in one behaviour
MaxUuid == 2
\* number of distinct instants the wall clock shows in one behaviour
MaxClock == 1
\* longest path template, in segments, the key comparison ranges over
MaxSegments == 2

\* ------------------------------------------------------- generic helpers
EmptyMap == [k \in {} |-> 0]

MapSet(m, k, v) == [y \in (DOMAIN m) \cup {k} |-> IF y = k THEN v ELSE m[y]]

\* {...a, ...b}: the fields of b overwrite those of a
Spread(a, b) == [f \in (DOMAIN a) \cup (DOMAIN b) |-> IF f \in DOMAIN b THEN b[f] ELSE a[f]]

Has(obj, f) == f \in DOMAIN obj

SeqRange(s) == {s[i] : i \in 1..Len(s)}

RemoveAt(s, i) == [j \in 1..(Len(s) - 1) |-> IF j < i THEN s[j] ELSE s[j + 1]]

\* first index of s satisfying the test, 0 when there is none (findIndex's -1)
FirstIndexWithId(s, id) ==
    IF \E i \in 1..Len(s) : Has(s[i], "id") /\ s[i].id = id
    THEN CHOOSE i \in 1..Len(s) :
            /\ Has(s[i], "id") /\ s[i].id = id
            /\ \A j \in 1..(i - 1) : ~(Has(s[j], "id") /\ s[j].id = id)
    ELSE 0

\* ---------------------------------------------------- character strings
WordChars == {"a", "b", "d", "i", "k", "p", "w", "I", "D"}

ToLowerChar(c) == IF c = "I" THEN "i" ELSE IF c = "D" THEN "d" ELSE c

ToLowerCase(s) == [i \in 1..Len(s) |-> ToLowerChar(s[i])]

\* s.includes(t)
Includes(s, t) ==
    \E i \in 1..(Len(s) - Len(t) + 1) : SubSeq(s, i, i + Len(t) - 1) = t

\* position of the first "}" at or after i, 0 when there is none
RECURSIVE FirstClose(_, _)
FirstClose(s, i) ==
    IF i > Len(s) THEN 0
    ELSE IF s[i] = "}" THEN i
    ELSE FirstClose(s, i + 1)

\* path.replace(/\/\{[^}]+\}/g, ''), scanning from position i
RECURSIVE StripParamsFrom(_, _)
StripParamsFrom(s, i) ==
    IF i > Len(s) THEN <<>>
    ELSE LET j == FirstClose(s, i + 2)
         IN  IF /\ s[i] = "/"
                /\ i + 1 <= Len(s)
                /\ s[i + 1] = "{"
                /\ j >= i + 3
             THEN StripParamsFrom(s, j + 1)
             ELSE <<s[i]>> \o StripParamsFrom(s, i + 1)

\* s.replace(/\/$/, '')
StripTrailingSlash(s) ==
    IF Len(s) > 0 /\ s[Len(s)] = "/" THEN SubSeq(s, 1, Len(s) - 1) ELSE s

\* getStore's key: path.replace(/\/\{[^}]+\}/g, '').replace(/\/$/, '') || '/'
getStoreKey(path) ==
    LET k == StripTrailingSlash(StripParamsFrom(path, 1))
    IN  IF k = <<>> THEN <<"/">> ELSE k

\* seed's key with the trailing-slash replace left out
seedKeyKeepSlash(path) ==
    LET k == StripParamsFrom(path, 1)
    IN  IF k = <<>> THEN <<"/">> ELSE k

\* seed's own copy of the key expression
seedKey(path) ==
    LET k == StripTrailingSlash(StripParamsFrom(path, 1))
    IN  IF k = <<>> THEN <<"/">> ELSE k

\* path.includes('{')
HasParams(path) == \E i \in 1..Len(path) : path[i] = "{"

\* the names captured by /\{(\w+)\}/g, in order: the keys of req.params
RECURSIVE WordEnd(_, _)
WordEnd(s, i) ==
    IF i <= Len(s) /\ s[i] \in WordChars THEN WordEnd(s, i + 1) ELSE i

RECURSIVE ParamNamesFrom(_, _)
ParamNamesFrom(s, i) ==
    IF i > Len(s) THEN <<>>
    ELSE LET e == WordEnd(s, i + 1)
         IN  IF s[i] = "{" /\ e > i + 1 /\ e <= Len(s) /\ s[e] = "}"
             THEN <<SubSeq(s, i + 1, e - 1)>> \o ParamNamesFrom(s, e + 1)
             ELSE ParamNamesFrom(s, i + 1)

ParamNames(path) == ParamNamesFrom(path, 1)

\* ------------------------------------------------------ the OpenAPI spec
\* $ref strings; "c" stands for components, "s" for schemas, "x" for a
\* top-level key the document does not have
RefWidget == <<"#", "/", "c", "/", "s", "/", "W">>
\* an intermediate segment does not exist
RefMissingMid == <<"#", "/", "x", "/", "s", "/", "W">>
RefTree == <<"#", "/", "c", "/", "s", "/", "T">>
\* the parent exists, the last segment does not
RefMissingLast == <<"#", "/", "c", "/", "s", "/", "N">>

\* schemas of the document
Widget ==
    [type |-> "object",
     required |-> {"name"},
     properties |-> [name |-> [type |-> "string", example |-> "A"]]]

\* an object schema that may also be null
NullableWidget ==
    [type |-> "object",
     nullable |-> TRUE,
     required |-> {"name"},
     properties |-> [name |-> [type |-> "string", example |-> "A"]]]

NewWidget ==
    [type |-> "object",
     required |-> {"name"},
     properties |-> [name |-> [type |-> "string", nullable |-> TRUE]]]

WidgetList == [type |-> "array", maxItems |-> 1, items |-> [ref |-> RefWidget]]

\* a schema whose items are itself
Tree == [type |-> "array", maxItems |-> 1, items |-> [ref |-> RefTree]]

\* a type ajv refuses to compile
Uncompilable == [type |-> "strin"]

\* the order Object.entries visits property names in
PropOrder == <<"id", "name", "species">>

ObjectNode(v) == [kind |-> "object", val |-> v]

\* the document as the walk of resolveRef sees it: every object reachable
\* from the root by property names, keyed by the path of names
SpecDoc ==
    (<<>> :> ObjectNode(EmptyMap))
    @@ (<<(<<"c">>)>> :> ObjectNode(EmptyMap))
    @@ (<<(<<"c">>), (<<"s">>)>> :> ObjectNode(EmptyMap))
    @@ (<<(<<"c">>), (<<"s">>), (<<"W">>)>> :> ObjectNode(Widget))
    @@ (<<(<<"c">>), (<<"s">>), (<<"T">>)>> :> ObjectNode(Tree))

\* the document of a second server in the same process: another schema
\* under the same name, and no T
OtherDoc ==
    (<<>> :> ObjectNode(EmptyMap))
    @@ (<<(<<"c">>)>> :> ObjectNode(EmptyMap))
    @@ (<<(<<"c">>), (<<"s">>)>> :> ObjectNode(EmptyMap))
    @@ (<<(<<"c">>), (<<"s">>), (<<"W">>)>> :> ObjectNode([type |-> "string"]))

\* ------------------------------------------------------- schema resolver
\* a value that may be undefined
Undefined == [undef |-> TRUE, val |-> EmptyMap]

Defined(v) == [undef |-> FALSE, val |-> v]

\* ref.replace('#/', ''): the first occurrence only
RemoveHashSlash(ref) ==
    IF \E i \in 1..(Len(ref) - 1) : ref[i] = "#" /\ ref[i + 1] = "/"
    THEN LET i == CHOOSE i \in 1..(Len(ref) - 1) :
                     /\ ref[i] = "#" /\ ref[i + 1] = "/"
                     /\ \A j \in 1..(i - 1) : ~(ref[j] = "#" /\ ref[j + 1] = "/")
         IN  SubSeq(ref, 1, i - 1) \o SubSeq(ref, i + 2, Len(ref))
    ELSE ref

\* s.split('/')
RECURSIVE SplitSlash(_)
SplitSlash(s) ==
    IF \E i \in 1..Len(s) : s[i] = "/"
    THEN LET i == CHOOSE i \in 1..Len(s) : s[i] = "/" /\ \A j \in 1..(i - 1) : s[j] # "/"
         IN  <<SubSeq(s, 1, i - 1)>> \o SplitSlash(SubSeq(s, i + 1, Len(s)))
    ELSE <<s>>

\* the loop throwing as soon as a part is missing, the last one included
RECURSIVE WalkPartsStrict(_, _, _, _, _)
WalkPartsStrict(spec, parts, i, isObject, docPath) ==
    IF ~isObject THEN [threw |-> TRUE, isObject |-> FALSE, docPath |-> docPath]
    ELSE IF i > Len(parts) THEN [threw |-> FALSE, isObject |-> isObject, docPath |-> docPath]
    ELSE WalkPartsStrict(spec, parts, i + 1, Append(docPath, parts[i]) \in DOMAIN spec,
                         Append(docPath, parts[i]))

\* the loop never throwing: a missing part leaves undefined to the end
RECURSIVE WalkPartsLenient(_, _, _, _, _)
WalkPartsLenient(spec, parts, i, isObject, docPath) ==
    IF i > Len(parts) THEN [threw |-> FALSE, isObject |-> isObject, docPath |-> docPath]
    ELSE WalkPartsLenient(spec, parts, i + 1,
                          isObject /\ Append(docPath, parts[i]) \in DOMAIN spec,
                          Append(docPath, parts[i]))

\* the loop of resolveRef over the parts, from the object of the document
\* spec at docPath (or from undefined); "threw" is the thrown 'Cannot
\* resolve reference'
RECURSIVE WalkParts(_, _, _, _, _)
WalkParts(spec, parts, i, isObject, docPath) ==
    IF i > Len(parts) THEN [threw |-> FALSE, isObject |-> isObject, docPath |-> docPath]
    ELSE IF isObject
         THEN LET next == Append(docPath, parts[i])
              IN  WalkParts(spec, parts, i + 1, next \in DOMAIN spec, next)
         ELSE [threw |-> TRUE, isObject |-> FALSE, docPath |-> docPath]

\* resolvedCache.set(ref, current) storing nothing of what was found
MemoizedEmpty(cache, ref, schema) == MapSet(cache, ref, Undefined)

\* resolvedCache.set(ref, current)
Memoized(cache, ref, schema) == MapSet(cache, ref, schema)

\* resolveRef(ref, spec) against the resolvedCache given; returns the
\* schema (possibly undefined) and the cache it leaves
resolveRef(ref, spec, cache) ==
    LET Found(w) ==
            LET schema == IF w.isObject THEN Defined(spec[w.docPath].val) ELSE Undefined
            IN  IF w.threw
                THEN [threw |-> TRUE, schema |-> Undefined, cache |-> cache]
                ELSE [threw |-> FALSE, schema |-> schema, cache |-> Memoized(cache, ref, schema)]
    IN  IF ref \in DOMAIN cache
        THEN [threw |-> FALSE, schema |-> cache[ref], cache |-> cache]
        ELSE Found(WalkParts(spec, SplitSlash(RemoveHashSlash(ref)), 1, TRUE, <<>>))

\* the composition keywords resolveSchema maps over
ListKeys == <<"allOf", "oneOf", "anyOf">>

\* resolveSchema(schema, spec); schema is a possibly-undefined value, and
\* reading .$ref of undefined throws a TypeError. stack holds the
\* references whose resolution has not returned yet: resolving one of them
\* again repeats the same calls without end, until the call stack is
\* exhausted and a RangeError is thrown
RECURSIVE resolveSchemaIn(_, _, _, _)
RECURSIVE ResolveProps(_, _, _, _, _, _)
RECURSIVE ResolveList(_, _, _, _, _, _)
RECURSIVE ResolveLists(_, _, _, _, _)

\* the loop over Object.entries(result.properties), from the i-th name on
ResolveProps(props, i, acc, spec, cache, stack) ==
    LET Rest(r) ==
            IF r.threw THEN r
            ELSE ResolveProps(props, i + 1, MapSet(acc, PropOrder[i], r.val), spec, r.cache,
                              stack)
    IN  IF i > Len(PropOrder) THEN [threw |-> FALSE, val |-> acc, cache |-> cache]
        ELSE IF PropOrder[i] \notin DOMAIN props
        THEN ResolveProps(props, i + 1, acc, spec, cache, stack)
        ELSE Rest(resolveSchemaIn(Defined(props[PropOrder[i]]), spec, cache, stack))

\* list.map((s) => resolveSchema(s, spec)), from the i-th element on
ResolveList(list, i, acc, spec, cache, stack) ==
    LET Rest(r) ==
            IF r.threw THEN r
            ELSE ResolveList(list, i + 1, Append(acc, r.val), spec, r.cache, stack)
    IN  IF i > Len(list) THEN [threw |-> FALSE, val |-> acc, cache |-> cache]
        ELSE Rest(resolveSchemaIn(Defined(list[i]), spec, cache, stack))

\* the three ifs for allOf, oneOf, anyOf, in that order
ResolveLists(result, k, spec, cache, stack) ==
    LET Rest(r) ==
            IF r.threw THEN r
            ELSE ResolveLists(MapSet(result, ListKeys[k], r.val), k + 1, spec, r.cache, stack)
    IN  IF k > Len(ListKeys) THEN [threw |-> FALSE, val |-> result, cache |-> cache]
        ELSE IF ~Has(result, ListKeys[k]) THEN ResolveLists(result, k + 1, spec, cache, stack)
        ELSE Rest(ResolveList(result[ListKeys[k]], 1, <<>>, spec, cache, stack))

resolveSchemaIn(schema, spec, cache, stack) ==
    LET Untouched(c) == [threw |-> FALSE, val |-> EmptyMap, cache |-> c]
        \* result.items = resolveSchema(result.items, spec), then the lists
        WithItems(result, it) ==
            IF it.threw THEN it
            ELSE ResolveLists(IF Has(result, "items") THEN MapSet(result, "items", it.val)
                              ELSE result, 1, spec, it.cache, stack)
        AfterProps(result, c) ==
            WithItems(result, IF Has(result, "items")
                              THEN resolveSchemaIn(Defined(result.items), spec, c, stack)
                              ELSE Untouched(c))
        \* result.properties = resolvedProps
        WithProps(p) ==
            IF p.threw THEN p
            ELSE AfterProps(IF Has(schema.val, "properties")
                            THEN MapSet(schema.val, "properties", p.val)
                            ELSE schema.val, p.cache)
        \* return resolveSchema(resolved, spec)
        Resolved(r, ref) ==
            IF r.threw THEN [threw |-> TRUE, val |-> EmptyMap, cache |-> r.cache]
            ELSE IF ref \in stack THEN [threw |-> TRUE, val |-> EmptyMap, cache |-> r.cache]
            ELSE resolveSchemaIn(r.schema, spec, r.cache, stack \cup {ref})
    IN  IF schema.undef THEN [threw |-> TRUE, val |-> EmptyMap, cache |-> cache]
        ELSE IF Has(schema.val, "ref")
        THEN Resolved(resolveRef(schema.val.ref, spec, cache), schema.val.ref)
        ELSE WithProps(IF Has(schema.val, "properties")
                       THEN ResolveProps(schema.val.properties, 1, EmptyMap, spec, cache, stack)
                       ELSE Untouched(cache))

\* resolveSchema(schema, currentSpec), called from outside
resolveSchema(schema, cache) == resolveSchemaIn(schema, SpecDoc, cache, {})

\* ------------------------------------------------- request-body validator
JsonTypes == {"string", "number", "integer", "boolean", "array", "object", "null"}

\* cleanForValidation(schema): drops example, examples and nullable, and
\* recurses into properties and items
RECURSIVE cleanForValidation(_)
cleanForValidation(schema) ==
    [key \in (DOMAIN schema) \ {"example", "examples", "nullable"} |->
        IF key = "properties"
        THEN [propKey \in DOMAIN schema[key] |-> cleanForValidation(schema[key][propKey])]
        ELSE IF key = "items" THEN cleanForValidation(schema[key])
        ELSE schema[key]]

\* ajv.compile(schema) returns a validator (it throws on a type keyword
\* that names no JSON type)
RECURSIVE AjvCompiles(_)
AjvCompiles(schema) ==
    /\ Has(schema, "type") => schema.type \in JsonTypes
    /\ Has(schema, "properties") =>
            \A k \in DOMAIN schema.properties : AjvCompiles(schema.properties[k])
    /\ Has(schema, "items") => AjvCompiles(schema.items)

\* validate.errors for an object body whose member values are all strings
\* (allErrors: true), each mapped to {field: instancePath || '/', message}
AjvErrors(schema, body) ==
    LET typeErrors ==
            IF Has(schema, "type") /\ schema.type # "object"
            THEN {[field |-> "/", message |-> "must be " \o schema.type]}
            ELSE {}
        requiredErrors ==
            IF Has(schema, "required")
            THEN {[field |-> "/", message |-> "must have required property " \o r] :
                    r \in schema.required \ DOMAIN body}
            ELSE {}
        propertyErrors ==
            IF Has(schema, "properties")
            THEN {[field |-> "/" \o k, message |-> "must be " \o schema.properties[k].type] :
                    k \in {q \in (DOMAIN body) \cap (DOMAIN schema.properties) :
                              /\ Has(schema.properties[q], "type")
                              /\ schema.properties[q].type # "string"}}
            ELSE {}
    IN  typeErrors \cup requiredErrors \cup propertyErrors

\* validateRequestBody with the schema compilation outside the try block
validateRequestBodyNoCatch(body, operation, cache) ==
    LET Valid(c) == [threw |-> FALSE, valid |-> TRUE, errors |-> {}, cache |-> c]
        Report(errors, c) ==
            [threw |-> FALSE, valid |-> errors = {}, errors |-> errors, cache |-> c]
        Compiled(cleanSchema, c) ==
            IF ~AjvCompiles(cleanSchema)
            THEN [threw |-> TRUE, valid |-> FALSE, errors |-> {}, cache |-> c]
            ELSE Report(AjvErrors(cleanSchema, body), c)
        Resolved(r) ==
            IF r.threw
            THEN [threw |-> TRUE, valid |-> FALSE, errors |-> {}, cache |-> r.cache]
            ELSE Compiled(cleanForValidation(r.val), r.cache)
    IN  IF ~Has(operation, "requestBody") THEN Valid(cache)
        ELSE IF ~Has(operation.requestBody, "schema") THEN Valid(cache)
        ELSE Resolved(resolveSchema(Defined(operation.requestBody.schema), cache))

\* validateRequestBody(body, operation, spec); requestBody.schema stands for
\* requestBody.content['application/json'].schema; "threw" is an exception
\* leaving the function
validateRequestBody(body, operation, cache) ==
    LET Valid(c) == [threw |-> FALSE, valid |-> TRUE, errors |-> {}, cache |-> c]
        Report(errors, c) ==
            [threw |-> FALSE, valid |-> errors = {}, errors |-> errors, cache |-> c]
        Compiled(cleanSchema, c) ==
            IF ~AjvCompiles(cleanSchema)
            THEN [threw |-> FALSE, valid |-> TRUE, errors |-> {}, cache |-> c]
            ELSE Report(AjvErrors(cleanSchema, body), c)
        Resolved(r) ==
            IF r.threw
            THEN [threw |-> TRUE, valid |-> FALSE, errors |-> {}, cache |-> r.cache]
            ELSE Compiled(cleanForValidation(r.val), r.cache)
    IN  IF ~Has(operation, "requestBody") THEN Valid(cache)
        ELSE IF ~Has(operation.requestBody, "schema") THEN Valid(cache)
        ELSE Resolved(resolveSchema(Defined(operation.requestBody.schema), cache))

\* --------------------------------------------------------- value generator
MAX_ARRAY_SIZE == 100

DEFAULT_ARRAY_SIZE == 5

Min(a, b) == IF a <= b THEN a ELSE b

MAX_OBJECT_DEPTH == 10

MaxWordLen == 2

MaxWords == 2

MaxPending == 1

\* ------------------------------------------------------- random sources
\* a draw from faker: any member of the outcomes when the seed is unknown,
\* one fixed member when faker was seeded right before the generation
Draw(outcomes, seeded) ==
    IF seeded /\ outcomes # {} THEN {CHOOSE x \in outcomes : TRUE} ELSE outcomes

\* Math.random() < p and Math.random() > p: faker.seed does not reach
\* Math.random, so both answers are always possible
MathRandom == BOOLEAN

\* ------------------------------------------------------ generated values
\* a JSON value with its kind: "string", "number", "boolean", "null",
\* "array" (val a sequence of values) or "object" (val a map of values);
\* "reference" is the string of a $ref, held as the document holds it
Value(kind, val) == [kind |-> kind, val |-> val]

Null == Value("null", "null")

\* the outcome of a generation that threw
Raised == Value("raised", "error")

\* the value of a JSON literal of the document (example, enum member); the
\* literals of the modelled documents are strings
Literal(v) == Value("string", v)

\* the plain JSON a generated value stands for; null is the string "null"
RECURSIVE Plain(_)
Plain(v) ==
    IF v.kind = "object" THEN [k \in DOMAIN v.val |-> Plain(v.val[k])]
    ELSE IF v.kind = "array" THEN [i \in 1..Len(v.val) |-> Plain(v.val[i])]
    ELSE v.val

\* ---------------------------------------------------------------- strings
RECURSIVE Repeat(_, _)
Repeat(s, n) == IF n <= 0 THEN "" ELSE s \o Repeat(s, n - 1)

\* value.substring(0, n)
Substring(value, n) == IF n <= 0 THEN "" ELSE SubSeq(value, 1, Min(n, Len(value)))

\* value.trim()
RECURSIVE Trim(_)
Trim(value) ==
    IF Len(value) = 0 THEN value
    ELSE IF SubSeq(value, 1, 1) = " " THEN Trim(SubSeq(value, 2, Len(value)))
    ELSE IF SubSeq(value, Len(value), Len(value)) = " "
    THEN Trim(SubSeq(value, 1, Len(value) - 1))
    ELSE value

UpperCase == "ABCDEFGHIJKLMNOPQRSTUVWXYZ"

LowerCase == "abcdefghijklmnopqrstuvwxyz"

\* propertyName.toLowerCase()
RECURSIVE StringToLowerCase(_)
StringToLowerCase(s) ==
    IF Len(s) = 0 THEN s
    ELSE LET Lower(c) ==
                 IF \E i \in 1..26 : SubSeq(UpperCase, i, i) = c
                 THEN LET i == CHOOSE i \in 1..26 : SubSeq(UpperCase, i, i) = c
                      IN  SubSeq(LowerCase, i, i)
                 ELSE c
         IN  Lower(SubSeq(s, 1, 1)) \o StringToLowerCase(SubSeq(s, 2, Len(s)))

\* key.includes(part)
StringIncludes(key, part) ==
    \E i \in 1..(Len(key) - Len(part) + 1) : SubSeq(key, i, i + Len(part) - 1) = part

\* key.endsWith(part)
StringEndsWith(key, part) ==
    Len(key) >= Len(part) /\ SubSeq(key, Len(key) - Len(part) + 1, Len(key)) = part

\* faker.lorem.word(): a word of 1 to MaxWordLen letters
LoremWord == {Repeat("x", n) : n \in 1..MaxWordLen}

\* count words joined by single spaces
RECURSIVE WordsJoined(_)
WordsJoined(count) ==
    IF count = 1 THEN LoremWord
    ELSE {w \o " " \o rest : w \in LoremWord, rest \in WordsJoined(count - 1)}

\* faker.lorem.words({ min: 1, max: 5 }), with at most MaxWords words
LoremWords == UNION {WordsJoined(count) : count \in 1..Min(5, MaxWords)}

\* Buffer.from(word).toString('base64') for a word of n letters x
RECURSIVE Base64(_)
Base64(n) ==
    IF n = 0 THEN ""
    ELSE IF n = 1 THEN "eA=="
    ELSE IF n = 2 THEN "eHg="
    ELSE "eHh4" \o Base64(n - 3)

\* faker.date.recent().toISOString()
DateRecent == {"2026-11-03T08:15:30.250Z", "2026-11-04T00:00:00.000Z"}

\* the strings each format of generateString's switch can return
FormatOutcomes(format) ==
    IF format = "uuid"
    THEN {"3f2b8c1e-7d4a-4e9b-8a6f-0c5d1e2f3a4b", "9a8b7c6d-5e4f-4a3b-9c2d-1e0f9a8b7c6d"}
    ELSE IF format = "email" THEN {w \o "@example.com" : w \in LoremWord}
    ELSE IF format \in {"uri", "url"} THEN {"https://" \o w \o ".com" : w \in LoremWord}
    ELSE IF format = "hostname" THEN {w \o ".com" : w \in LoremWord}
    ELSE IF format = "ipv4" THEN {"10.0.0.1", "192.168.100.200"}
    ELSE IF format = "ipv6"
    THEN {"2001:0db8:85a3:0000:0000:8a2e:0370:7334", "fe80:0000:0000:0000:0202:b3ff:fe1e:8329"}
    ELSE IF format = "date-time" THEN DateRecent
    ELSE IF format = "date" THEN {SubSeq(d, 1, 10) : d \in DateRecent}
    ELSE IF format = "time" THEN {SubSeq(d, 12, 19) : d \in DateRecent}
    ELSE IF format = "password" THEN {Repeat("p", 12), Repeat("q", 12)}
    ELSE IF format = "byte" THEN {Base64(Len(w)) : w \in LoremWord}
    ELSE IF format = "binary" THEN LoremWord
    ELSE {}

Formats ==
    {"uuid", "email", "uri", "url", "hostname", "ipv4", "ipv6", "date-time", "date",
     "time", "password", "byte", "binary"}

\* exactMap: the faker routine behind each exact property name
ExactMap ==
    [firstname |-> "person.firstName", first_name |-> "person.firstName",
     lastname |-> "person.lastName", last_name |-> "person.lastName",
     fullname |-> "person.fullName", full_name |-> "person.fullName",
     username |-> "internet.userName", email |-> "internet.email",
     phone |-> "phone.number", phonenumber |-> "phone.number",
     phone_number |-> "phone.number", avatar |-> "image.avatar",
     image |-> "image.url", photo |-> "image.url", picture |-> "image.url",
     city |-> "location.city", state |-> "location.state",
     country |-> "location.country", zipcode |-> "location.zipCode",
     zip_code |-> "location.zipCode", zip |-> "location.zipCode",
     street |-> "location.street", company |-> "company.name",
     companyname |-> "company.name", company_name |-> "company.name",
     title |-> "person.jobTitle", jobtitle |-> "person.jobTitle",
     job_title |-> "person.jobTitle", bio |-> "lorem.paragraph",
     description |-> "lorem.paragraph", summary |-> "lorem.sentence",
     content |-> "lorem.paragraphs", website |-> "internet.url",
     url |-> "internet.url", color |-> "color.human",
     currency |-> "finance.currencyCode", iban |-> "finance.iban",
     status |-> "status"]

\* getHeuristicForProperty(key): the routine for a lower-cased property
\* name, "" for null
getHeuristicForProperty(key) ==
    IF key \in DOMAIN ExactMap THEN ExactMap[key]
    ELSE IF key = "name" \/ StringEndsWith(key, "name") \/ StringEndsWith(key, "_name")
    THEN "person.fullName"
    ELSE IF StringIncludes(key, "phone") THEN "phone.number"
    ELSE IF StringIncludes(key, "email") THEN "internet.email"
    ELSE IF StringIncludes(key, "address") \/ StringIncludes(key, "street")
    THEN "location.streetAddress"
    ELSE IF StringIncludes(key, "city") THEN "location.city"
    ELSE IF StringIncludes(key, "country") THEN "location.country"
    ELSE IF \/ StringIncludes(key, "avatar") \/ StringIncludes(key, "image")
            \/ StringIncludes(key, "photo")
    THEN "image.url"
    ELSE IF \/ StringIncludes(key, "url") \/ StringIncludes(key, "website")
            \/ StringIncludes(key, "link")
    THEN "internet.url"
    ELSE IF \/ StringIncludes(key, "description") \/ StringIncludes(key, "bio")
            \/ StringIncludes(key, "about")
    THEN "lorem.paragraph"
    ELSE IF StringIncludes(key, "title") THEN "person.jobTitle"
    ELSE IF StringIncludes(key, "company") THEN "company.name"
    ELSE ""

\* strings the faker routines of the heuristics return (two or three
\* of the strings each routine can produce)
RoutineOutcomes(routine) ==
    IF routine = "person.firstName" THEN {"Ada", "Grace"}
    ELSE IF routine = "person.lastName" THEN {"Lovelace", "Hopper"}
    ELSE IF routine = "person.fullName" THEN {"Ada Lovelace", "Grace Hopper"}
    ELSE IF routine = "internet.userName" THEN {"Ada.Lovelace", "Grace_Hopper42"}
    ELSE IF routine = "internet.email" THEN {w \o "@example.com" : w \in LoremWord}
    ELSE IF routine = "phone.number" THEN {"555-0100", "1-555-010-0199 x123"}
    ELSE IF routine = "image.avatar"
    THEN {"https://avatars.githubusercontent.com/u/1", "https://cdn.jsdelivr.net/1.jpg"}
    ELSE IF routine = "image.url"
    THEN {"https://picsum.photos/seed/x/640/480", "https://loremflickr.com/640/480?lock=1"}
    ELSE IF routine = "location.city" THEN {"Paris", "Port Louis"}
    ELSE IF routine = "location.state" THEN {"Ohio", "New Mexico"}
    ELSE IF routine = "location.country" THEN {"Chad", "New Zealand"}
    ELSE IF routine = "location.zipCode" THEN {"12345", "12345-6789"}
    ELSE IF routine = "location.street" THEN {"Main Street", "Elm Row"}
    ELSE IF routine = "location.streetAddress" THEN {"1 Main Street", "2200 Elm Row"}
    ELSE IF routine = "company.name" THEN {"Acme Inc", "Hopper - Lovelace"}
    ELSE IF routine = "person.jobTitle" THEN {"Lead Engineer", "Chief Data Officer"}
    ELSE IF routine = "lorem.paragraph"
    THEN {w \o ". " \o w \o ". " \o w \o "." : w \in LoremWords}
    ELSE IF routine = "lorem.sentence" THEN {w \o "." : w \in LoremWords}
    ELSE IF routine = "lorem.paragraphs"
    THEN {w \o ". " \o w \o ".\n" \o w \o ". " \o w \o "." : w \in LoremWords}
    ELSE IF routine = "internet.url" THEN {"https://" \o w \o ".com" : w \in LoremWord}
    ELSE IF routine = "color.human" THEN {"red", "sky blue"}
    ELSE IF routine = "finance.currencyCode" THEN {"USD", "EUR"}
    ELSE IF routine = "finance.iban" THEN {"GB82WEST12345698765432", "DE89370400440532013000"}
    ELSE IF routine = "status" THEN {"active", "inactive", "pending"}
    ELSE {}

\* while (value.length < minLength) value += ' ' + faker.lorem.word()
RECURSIVE Pad(_, _, _)
Pad(value, minLength, seeded) ==
    IF Len(value) >= minLength THEN {value}
    ELSE UNION {Pad(value \o " " \o w, minLength, seeded) : w \in Draw(LoremWord, seeded)}

\* generateString with the property-name heuristic tried before the format
generateStringHeuristicFirst(schema, propertyName, seeded) ==
    LET Words(minLength, maxLength) ==
            {Trim(padded) :
                padded \in UNION {Pad(IF Len(value) > maxLength
                                      THEN Substring(value, maxLength) ELSE value,
                                      minLength, seeded) :
                                  value \in Draw(LoremWords, seeded)}}
        Heuristic(routine) ==
            IF routine # "" THEN Draw(RoutineOutcomes(routine), seeded)
            ELSE IF Has(schema, "format") /\ schema.format \in Formats
            THEN Draw(FormatOutcomes(schema.format), seeded)
            ELSE IF Has(schema, "pattern") /\ schema.pattern # ""
            THEN Draw(LoremWord, seeded)
            ELSE Words(IF Has(schema, "minLength") THEN schema.minLength ELSE 1,
                       IF Has(schema, "maxLength") THEN schema.maxLength ELSE 50)
    IN  Heuristic(getHeuristicForProperty(StringToLowerCase(propertyName)))

\* generateString(schema, propertyName): every string it can return
generateString(schema, propertyName, seeded) ==
    LET Words(minLength, maxLength) ==
            {Trim(padded) :
                padded \in UNION {Pad(IF Len(value) > maxLength
                                      THEN Substring(value, maxLength) ELSE value,
                                      minLength, seeded) :
                                  value \in Draw(LoremWords, seeded)}}
        Heuristic(routine) ==
            IF routine # "" THEN Draw(RoutineOutcomes(routine), seeded)
            ELSE Words(IF Has(schema, "minLength") THEN schema.minLength ELSE 1,
                       IF Has(schema, "maxLength") THEN schema.maxLength ELSE 50)
    IN  IF Has(schema, "format") /\ schema.format \in Formats
        THEN Draw(FormatOutcomes(schema.format), seeded)
        ELSE IF Has(schema, "pattern") /\ schema.pattern # ""
        THEN Draw(LoremWord, seeded)
        ELSE Heuristic(getHeuristicForProperty(StringToLowerCase(propertyName)))

\* faker.number.int({ min, max }) and faker.number.float({ min, max,
\* fractionDigits: 2 }): both throw when max is below min. Numbers are
\* held in hundredths: an integer n is 100 * n
generateNumber(schema, seeded) ==
    LET Number(min, max) ==
            IF max < min THEN {Raised}
            ELSE IF schema.type = "integer"
            THEN {Value("number", 100 * n) : n \in Draw(min..max, seeded)}
            ELSE {Value("number", n) : n \in Draw((100 * min)..(100 * max), seeded)}
    IN  Number(IF Has(schema, "minimum") THEN schema.minimum ELSE 0,
               IF Has(schema, "maximum") THEN schema.maximum ELSE 1000)

\* faker.string.uuid()
FakerUuid == FormatOutcomes("uuid")

\* a generated composite: raised when generating one of its parts raised
Composite(kind, parts) ==
    IF \E k \in DOMAIN parts : parts[k].kind = "raised" THEN Raised ELSE Value(kind, parts)

\* faker.helpers.arrayElement(list): throws on an empty list
ArrayElementIndex(list, seeded) == Draw(1..Len(list), seeded)

RECURSIVE generateFromSchema(_, _, _, _)
RECURSIVE generateArray(_, _, _, _)
RECURSIVE generateObject(_, _, _, _)
RECURSIVE MergeAllOf(_, _, _, _, _, _)

\* generateArray(schema, context): the count is drawn before the items
\* schema is looked at; the items inherit the context's propertyName
generateArray(schema, propertyName, depth, seeded) ==
    LET Items(minItems, maxItems) ==
            IF maxItems < minItems THEN {Raised}
            ELSE IF ~Has(schema, "items") THEN {Value("array", <<>>)}
            ELSE UNION {{Composite("array", items) :
                            items \in [1..count -> generateFromSchema(schema.items, propertyName,
                                                                      depth, seeded)]} :
                        count \in Draw(minItems..maxItems, seeded)}
    IN  Items(IF Has(schema, "minItems") THEN schema.minItems ELSE 1,
              Min(IF Has(schema, "maxItems") THEN schema.maxItems ELSE DEFAULT_ARRAY_SIZE,
                  MAX_ARRAY_SIZE))

\* generateObject(schema, context): a property is generated when it is
\* required or Math.random() > 0.2
generateObject(schema, propertyName, depth, seeded) ==
    LET Objects(keys, required) ==
            UNION {{Composite("object", obj) :
                        obj \in {o \in [present -> UNION {generateFromSchema(
                                                            schema.properties[k], k,
                                                            depth + 1, seeded) : k \in present}] :
                                    \A k \in present :
                                        o[k] \in generateFromSchema(schema.properties[k], k,
                                                                    depth + 1, seeded)}} :
                   present \in {g \in SUBSET keys : (required \cap keys) \subseteq g}}
    IN  IF depth > MAX_OBJECT_DEPTH
        THEN {Value("object", [id |-> Value("string", u)]) : u \in Draw(FakerUuid, seeded)}
        ELSE IF ~Has(schema, "properties") THEN {Value("object", EmptyMap)}
        ELSE Objects(DOMAIN schema.properties,
                     IF Has(schema, "required") THEN schema.required ELSE {})

\* the allOf loop from the i-th sub-schema on, then the fallback to
\* allOf[0] when nothing was merged (allOf[0] is undefined in an empty list)
MergeAllOf(allOf, i, merged, propertyName, depth, seeded) ==
    IF i > Len(allOf)
    THEN IF DOMAIN merged # {} THEN {Value("object", merged)}
         ELSE IF Len(allOf) = 0 THEN {Raised}
         ELSE generateFromSchema(allOf[1], propertyName, depth, seeded)
    ELSE UNION {IF result.kind = "raised" THEN {Raised}
                ELSE MergeAllOf(allOf, i + 1,
                                IF result.kind = "object" THEN Spread(merged, result.val)
                                ELSE merged,
                                propertyName, depth, seeded) :
                result \in generateFromSchema(allOf[i], propertyName, depth, seeded)}

\* generateFromSchema(schema, context): every outcome, a value or Raised,
\* over the draws of faker and of Math.random
generateFromSchema(schema, propertyName, depth, seeded) ==
    LET OneOf(list) ==
            IF Len(list) = 0 THEN {Raised}
            ELSE UNION {generateFromSchema(list[i], propertyName, depth, seeded) :
                        i \in ArrayElementIndex(list, seeded)}
        ByType ==
            IF Has(schema, "enum") /\ Len(schema.enum) > 0
            THEN {Literal(schema.enum[i]) : i \in ArrayElementIndex(schema.enum, seeded)}
            ELSE IF Has(schema, "allOf")
            THEN MergeAllOf(schema.allOf, 1, EmptyMap, propertyName, depth, seeded)
            ELSE IF Has(schema, "oneOf") THEN OneOf(schema.oneOf)
            ELSE IF Has(schema, "anyOf") THEN OneOf(schema.anyOf)
            ELSE IF Has(schema, "type") /\ schema.type = "string"
            THEN {Value("string", s) : s \in generateString(schema, propertyName, seeded)}
            ELSE IF Has(schema, "type") /\ schema.type \in {"number", "integer"}
            THEN generateNumber(schema, seeded)
            ELSE IF Has(schema, "type") /\ schema.type = "boolean"
            THEN {Value("boolean", b) : b \in Draw(BOOLEAN, seeded)}
            ELSE IF Has(schema, "type") /\ schema.type = "array"
            THEN generateArray(schema, propertyName, depth, seeded)
            ELSE IF Has(schema, "type") /\ schema.type = "object"
            THEN generateObject(schema, propertyName, depth, seeded)
            ELSE {Value("string", w) : w \in Draw(LoremWord, seeded)}
    IN  IF Has(schema, "example") THEN {Literal(schema.example)}
        ELSE IF Has(schema, "ref") /\ schema.ref # <<>>
        THEN {Value("object", [ref |-> Value("reference", schema.ref)])}
        ELSE IF Has(schema, "nullable") /\ schema.nullable
        THEN UNION {IF isNull THEN {Null} ELSE ByType : isNull \in MathRandom}
        ELSE ByType

\* generateData(schema): resolves the schema once more, then generates
generateData(schema, cache, seeded) ==
    LET Generated(r) ==
            [threw |-> r.threw,
             values |-> IF r.threw THEN {} ELSE generateFromSchema(r.val, "", 0, seeded),
             cache |-> r.cache]
    IN  Generated(resolveSchema(Defined(schema), cache))

\* -------------------------------------------------------------- State Store
\* the identifiers uuidv4() and faker.string.uuid() hand out, in order
Uuid(n) == "u" \o ToString(n)

\* new Date().toISOString() at instant n
IsoString(n) == "t" \o ToString(n)

\* the clock after a timestamp was taken: later instants are later, up to
\* the last instant of the model
Tick(n) == IF n < MaxClock THEN n + 1 ELSE n

\* getStore(path): creates the 'default' store and the collection when
\* they are missing; returns the stores it leaves and the collection's key
getStore(st, path) ==
    LET Collection(key, store) ==
            LET s2 == IF key \in DOMAIN store["default"] THEN store
                      ELSE MapSet(store, "default", MapSet(store["default"], key, <<>>))
            IN  [stores |-> s2, key |-> key, items |-> s2["default"][key]]
    IN  Collection(getStoreKey(path),
                   IF "default" \in DOMAIN st THEN st ELSE MapSet(st, "default", EmptyMap))

SetItems(st, key, items) == MapSet(st, "default", MapSet(st["default"], key, items))

\* stateManager.getAll
getAll(st, path) == getStore(st, path)

\* stateManager.getById: found is FALSE for undefined
getById(st, path, id) ==
    LET Find(g, index) ==
            [stores |-> g.stores, found |-> index # 0,
             item |-> IF index # 0 THEN g.items[index] ELSE EmptyMap]
        In(g) == Find(g, FirstIndexWithId(g.items, id))
    IN  In(getStore(st, path))

\* stateManager.create: { id: uuidv4(), ...data, createdAt }
create(st, path, data, uuid, isoNow) ==
    LET Push(g, newItem) ==
            [stores |-> SetItems(g.stores, g.key, Append(g.items, newItem)), item |-> newItem]
    IN  Push(getStore(st, path), Spread(Spread([id |-> uuid], data), [createdAt |-> isoNow]))

\* update with the id spread before the caller's data
updateDataIdWins(st, path, id, data, isoNow) ==
    LET Put(g, index, newItem) ==
            [stores |-> SetItems(g.stores, g.key, [g.items EXCEPT ![index] = newItem]),
             found |-> TRUE, item |-> newItem]
        At(g, index) ==
            IF index = 0 THEN [stores |-> g.stores, found |-> FALSE, item |-> EmptyMap]
            ELSE Put(g, index, Spread(Spread(g.items[index], data), [updatedAt |-> isoNow]))
        In(g) == At(g, FirstIndexWithId(g.items, id))
    IN  In(getStore(st, path))

\* stateManager.update: { ...items[index], ...data, id, updatedAt }
update(st, path, id, data, isoNow) ==
    LET Put(g, index, newItem) ==
            [stores |-> SetItems(g.stores, g.key, [g.items EXCEPT ![index] = newItem]),
             found |-> TRUE, item |-> newItem]
        At(g, index) ==
            IF index = 0 THEN [stores |-> g.stores, found |-> FALSE, item |-> EmptyMap]
            ELSE Put(g, index, Spread(Spread(Spread(g.items[index], data), [id |-> id]),
                                      [updatedAt |-> isoNow]))
        In(g) == At(g, FirstIndexWithId(g.items, id))
    IN  In(getStore(st, path))

\* stateManager.delete: deleted is the boolean it returns
delete(st, path, id) ==
    LET At(g, index) ==
            IF index = 0 THEN [stores |-> g.stores, deleted |-> FALSE]
            ELSE [stores |-> SetItems(g.stores, g.key, RemoveAt(g.items, index)),
                  deleted |-> TRUE]
        In(g) == At(g, FirstIndexWithId(g.items, id))
    IN  In(getStore(st, path))

\* stateManager.seed: replaces the collection by a copy of items
seed(st, path, items) ==
    LET key == seedKey(path)
        s1 == IF "default" \in DOMAIN st THEN st ELSE MapSet(st, "default", EmptyMap)
    IN  SetItems(s1, key, items)

\* ------------------------------------------------------------ the routes
PathW == <<"/", "w">>
PathWSlash == <<"/", "w", "/">>
PathWId == <<"/", "w", "/", "{", "w", "I", "d", "}">>
PathKW == <<"/", "{", "k", "}", "/", "w">>
PathP == <<"/", "p">>
PathAIdWId == <<"/", "{", "a", "I", "d", "}", "/", "w", "/", "{", "w", "I", "d", "}">>

Json(schema) == [schema |-> schema]

\* the x-contour-count of the list operation
ContourCountOfList == 3

NoContent == EmptyMap

\* spec.paths: one entry per declared operation (path, method, Operation);
\* a response's schema stands for content['application/json'].schema
Routes ==
    { [path |-> PathP, method |-> "post",
       operation |-> [responses |-> ("201" :> Json([ref |-> RefWidget])),
                      requestBody |-> Json([ref |-> RefMissingMid])]],
      [path |-> PathW, method |-> "get",
       operation |-> [responses |-> ("200" :> Json(WidgetList))]],
      [path |-> PathW, method |-> "post",
       operation |-> [responses |-> ("201" :> Json([ref |-> RefWidget]) @@
                                     "200" :> Json(WidgetList))]],
      [path |-> PathWSlash, method |-> "get",
       operation |-> ("x-contour-count" :> ContourCountOfList) @@
                     [responses |-> ("default" :> Json(WidgetList))]],
      [path |-> PathWSlash, method |-> "post",
       operation |-> [responses |-> ("200" :> Json([ref |-> RefWidget])),
                      requestBody |-> Json(NewWidget)]],
      [path |-> PathWId, method |-> "get",
       operation |-> [responses |-> ("200" :> Json([ref |-> RefWidget]) @@
                                     "default" :> Json(WidgetList))]],
      [path |-> PathWId, method |-> "put",
       operation |-> ("x-contour-deterministic" :> TRUE) @@
                     [responses |-> ("200" :> Json(NullableWidget))]],
      [path |-> PathWId, method |-> "patch",
       operation |-> [responses |-> ("200" :> Json([ref |-> RefWidget])),
                      requestBody |-> Json(Uncompilable)]],
      [path |-> PathWId, method |-> "delete",
       operation |-> [responses |-> ("200" :> NoContent)]],
      [path |-> PathKW, method |-> "get",
       operation |-> ("x-contour-delay" :> 50) @@
                     [responses |-> ("200" :> Json([ref |-> RefWidget]))]],
      [path |-> PathAIdWId, method |-> "get",
       operation |-> [responses |-> ("200" :> Json([ref |-> RefWidget]))]],
      [path |-> PathKW, method |-> "delete",
       operation |-> [responses |-> ("204" :> NoContent)]] }

\* request bodies (express.json() leaves {} when there is none)
Bodies ==
    { EmptyMap,
      [name |-> "A"],
      [id |-> "c1", species |-> "cat"] }

\* values a client puts in a path parameter
IdValues == {Uuid(1), "c1"}

\* ------------------------------------------------------------------ state
VARIABLES
    stateful,       \* config.stateful, fixed when the server is built
    stores,         \* the stores Map of the State Store
    resolvedCache,  \* the resolver's memoization Map
    nextUuid,       \* how many identifiers the uuid sources have handed out, plus one
    now,            \* the instant the wall clock shows at the next new Date()
    req,            \* the last request a handler took
    res,            \* the response it sent
    seededKeys,     \* history: the collection keys seed has written since the last clear
    generation,     \* the last direct call of generateFromSchema: its arguments and result
    pending,        \* the setTimeout callbacks not yet run: request and response of each
    resolution,     \* the last direct call of the resolver: its arguments and result
    server          \* the paths of the spec createServer was given and what it returned

vars == <<stateful, stores, resolvedCache, nextUuid, now, req, res, seededKeys, generation,
          pending, resolution, server>>

NoRequest == [path |-> <<>>, method |-> "none", operation |-> EmptyMap, params |-> <<>>, body |-> EmptyMap]

Response(status, kind, data, errors) ==
    [status |-> status, kind |-> kind, data |-> data, errors |-> errors]

NoResponse == Response(0, "none", <<>>, {})

\* nothing written to the response yet: the handler returned after setTimeout
Pending == Response(0, "pending", <<>>, {})

\* what one run of a handler leaves behind
Outcome(st, cache, uuid, clock, seeded, response) ==
    [stores |-> st, cache |-> cache, nextUuid |-> uuid, now |-> clock,
     seededKeys |-> seeded, res |-> response, timer |-> FALSE]

\* the lookup with the three keys tried in the opposite order
SelectResponseDefaultFirst(method, operation) ==
    LET successCode == IF method = "post" THEN "201" ELSE "200"
        responses == operation.responses
    IN  IF "default" \in DOMAIN responses THEN Defined(responses["default"])
        ELSE IF "200" \in DOMAIN responses THEN Defined(responses["200"])
        ELSE IF successCode \in DOMAIN responses THEN Defined(responses[successCode])
        ELSE Undefined

\* operation.responses[successCode] || responses['200'] || responses['default']
SelectResponse(method, operation) ==
    LET successCode == IF method = "post" THEN "201" ELSE "200"
        responses == operation.responses
    IN  IF successCode \in DOMAIN responses THEN Defined(responses[successCode])
        ELSE IF "200" \in DOMAIN responses THEN Defined(responses["200"])
        ELSE IF "default" \in DOMAIN responses THEN Defined(responses["default"])
        ELSE Undefined

\* Object.keys(req.params).find(k => k.toLowerCase().includes('id'))
\*     || Object.keys(req.params).pop(); 0 when req.params is empty
IdParamIndex(names) ==
    IF \E i \in 1..Len(names) : Includes(ToLowerCase(names[i]), <<"i", "d">>)
    THEN CHOOSE i \in 1..Len(names) :
            /\ Includes(ToLowerCase(names[i]), <<"i", "d">>)
            /\ \A j \in 1..(i - 1) : ~Includes(ToLowerCase(names[j]), <<"i", "d">>)
    ELSE Len(names)

\* key === 'id' || key.endsWith('Id')
IsIdKey(name) ==
    \/ name = <<"i", "d">>
    \/ Len(name) >= 2 /\ SubSeq(name, Len(name) - 1, Len(name)) = <<"I", "d">>

\* a parameter name as the key of an object
RECURSIVE KeyOf(_)
KeyOf(name) == IF Len(name) = 0 THEN "" ELSE name[1] \o KeyOf(SubSeq(name, 2, Len(name)))

\* the loop with every id-like parameter written under its own name
RECURSIVE InjectParamsOwnKey(_, _, _, _)
InjectParamsOwnKey(data, names, params, i) ==
    IF i > Len(names) THEN data
    ELSE InjectParamsOwnKey(IF IsIdKey(names[i])
                            THEN MapSet(data, KeyOf(names[i]), params[i]) ELSE data,
                            names, params, i + 1)

\* the loop injecting path parameters into a generated object: the last
\* id-like parameter wins
RECURSIVE InjectParams(_, _, _, _)
InjectParams(data, names, params, i) ==
    IF i > Len(names) THEN data
    ELSE InjectParams(IF IsIdKey(names[i]) THEN Spread(data, [id |-> params[i]]) ELSE data,
                      names, params, i + 1)

\* the body the catch block sends, whatever was thrown
GenericError ==
    [error |-> "Internal Server Error", message |-> "Failed to generate mock response"]

InternalErrorRawMessage ==
    Response(500, "error",
             <<[error |-> "Internal Server Error", message |-> "Reference not found"]>>, {})

InternalError == Response(500, "error", <<GenericError>>, {})

NotFound == Response(404, "error", <<[error |-> "Not Found"]>>, {})

\* operation['x-contour-count'], 0 when the operation has none
ContourCount(operation) ==
    IF Has(operation, "x-contour-count") THEN operation["x-contour-count"] ELSE 0

\* operation['x-contour-deterministic']: initGenerator(seed) runs before
\* anything else in the handler
ContourDeterministic(operation) ==
    Has(operation, "x-contour-deterministic") /\ operation["x-contour-deterministic"]

\* operation['x-contour-delay'], 0 when the operation has none
ContourDelay(operation) ==
    IF Has(operation, "x-contour-delay") THEN operation["x-contour-delay"] ELSE 0

\* sendResponse: the response goes out through a timer when the operation
\* has a positive delay, at once otherwise
sendResponse(operation, outcome) ==
    [outcome EXCEPT !.timer = ContourDelay(operation) > 0]

\* what the handler has written to the response when it returns
Answer(outcome) == IF outcome.timer THEN Pending ELSE outcome.res

\* the timer callback answering and staying scheduled
TimerFiresAgain(timers, i) == [res |-> timers[i].response, pending |-> timers]

\* () => res.status(statusCode).json(body), run once by the timer
TimerFires(timers, i) == [res |-> timers[i].response, pending |-> RemoveAt(timers, i)]

\* data.slice(0, targetCount)
Slice(data, targetCount) ==
    IF targetCount >= 0 THEN SubSeq(data, 1, Min(targetCount, Len(data)))
    ELSE SubSeq(data, 1, Len(data) + targetCount)

\* the response a handler sends for a JSON value
JsonResponse(status, v) ==
    IF v.kind = "object" THEN Response(status, "object", <<Plain(v)>>, {})
    ELSE IF v.kind = "array" THEN Response(status, "array", Plain(v), {})
    ELSE IF v.kind = "null" THEN Response(status, "null", <<>>, {})
    ELSE Response(status, "value", <<v>>, {})

\* --------------------------------------------------------- the handler
\* the stateful branch of the handler, entered with the resolved response
\* schema (hasSchema is FALSE for null) and the cache validation left;
\* handled is FALSE when the branch falls through to the stateless one
StatefulBranch(path, method, params, body, hasSchema, schema, cache, seeded) ==
    LET Same(st, response) == Outcome(st, cache, nextUuid, now, seededKeys, response)
        Handled(outcomes) == [handled |-> TRUE, outcomes |-> outcomes]
        \* get item by id
        GetItem(g) ==
            IF g.found THEN {Same(g.stores, Response(200, "object", <<g.item>>, {}))}
            ELSE {Same(g.stores, NotFound)}
        \* list collection, seeding it when it is empty
        \* generated.map(item => ({ id: faker.string.uuid(), ...item }))
        Seeded(generated) ==
            [i \in 1..Len(generated) |->
                Spread([id |-> Uuid(nextUuid + i - 1)],
                       IF generated[i].kind = "object" THEN Plain(generated[i])
                       ELSE EmptyMap)]
        SeedWith(g, gen, generated) ==
            IF generated.kind = "raised"
            THEN Outcome(g.stores, gen.cache, nextUuid, now, seededKeys, InternalError)
            ELSE IF generated.kind = "array"
            THEN Outcome(seed(g.stores, path, Seeded(generated.val)), gen.cache,
                         nextUuid + Len(generated.val), now,
                         seededKeys \cup {seedKey(path)},
                         Response(200, "array", Seeded(generated.val), {}))
            ELSE Outcome(g.stores, gen.cache, nextUuid, now, seededKeys,
                         Response(200, "array", g.items, {}))
        Seed(g, gen) ==
            IF gen.threw
            THEN {Outcome(g.stores, gen.cache, nextUuid, now, seededKeys, InternalError)}
            ELSE {SeedWith(g, gen, generated) :
                    generated \in {v \in gen.values :
                                     v.kind = "array" => nextUuid + Len(v.val) - 1 <= MaxUuid}}
        List(g) ==
            IF Len(g.items) = 0 /\ hasSchema
            THEN Seed(g, generateData(schema, cache, seeded))
            ELSE {Same(g.stores, Response(200, "array", g.items, {}))}
        Created(c) ==
            IF nextUuid <= MaxUuid
            THEN {Outcome(c.stores, cache, nextUuid + 1, Tick(now), seededKeys,
                          Response(201, "object", <<c.item>>, {}))}
            ELSE {}
        Updated(u) ==
            IF u.found
            THEN {Outcome(u.stores, cache, nextUuid, Tick(now), seededKeys,
                          Response(200, "object", <<u.item>>, {}))}
            ELSE {Same(u.stores, NotFound)}
        Deleted(d) ==
            IF d.deleted THEN {Same(d.stores, Response(204, "none", <<>>, {}))}
            ELSE {Same(d.stores, NotFound)}
        \* idIndex is 0 when req.params has no key (id is then null)
        Branch(hasParams, idIndex) ==
            LET hasId == idIndex # 0
                id == IF hasId THEN params[idIndex] ELSE ""
            IN  IF method = "get" /\ hasParams /\ hasId
                THEN Handled(GetItem(getById(stores, path, id)))
                ELSE IF method = "get" /\ ~hasParams
                THEN Handled(List(getAll(stores, path)))
                ELSE IF method = "post"
                THEN Handled(Created(create(stores, path, body, Uuid(nextUuid),
                                            IsoString(now))))
                ELSE IF method \in {"put", "patch"} /\ hasId
                THEN Handled(Updated(update(stores, path, id, body, IsoString(now))))
                ELSE IF method = "delete" /\ hasId
                THEN Handled(Deleted(delete(stores, path, id)))
                ELSE [handled |-> FALSE, outcomes |-> {}]
    IN  Branch(HasParams(path), IdParamIndex(ParamNames(path)))

\* the stateless branch
StatelessBranch(path, method, operation, params, body, hasSchema, schema, cache, seeded) ==
    LET Same(c, response) == Outcome(stores, c, nextUuid, now, seededKeys, response)
        Sent(c, response) == sendResponse(operation, Same(c, response))
        Injected(data, names) == InjectParams(data, names, params, 1)
        \* path parameters, then the request body for the write methods;
        \* Object.assign(null, body) throws
        Assembled(c, v, names) ==
            IF v.kind = "raised" THEN Same(c, InternalError)
            ELSE IF v.kind = "object"
            THEN Sent(c, IF method = "post"
                         THEN Response(201, "object",
                                       <<Spread(Injected(Plain(v), names), body)>>, {})
                         ELSE IF method \in {"put", "patch"}
                         THEN Response(200, "object",
                                       <<Spread(Injected(Plain(v), names), body)>>, {})
                         ELSE Response(200, "object", <<Injected(Plain(v), names)>>, {}))
            ELSE IF v.kind = "null" /\ method \in {"post", "put", "patch"}
            THEN Same(c, InternalError)
            ELSE Sent(c, JsonResponse(200, v))
        \* while (data.length < targetCount) data.push(generateData(...))
        RECURSIVE Pushed(_, _, _)
        Pushed(data, targetCount, c) ==
            IF Len(data) >= targetCount THEN {[data |-> data, raised |-> FALSE, cache |-> c]}
            ELSE LET More(gen) ==
                         IF gen.threw THEN {[data |-> data, raised |-> TRUE, cache |-> gen.cache]}
                         ELSE UNION {IF v.kind = "raised"
                                     THEN {[data |-> data, raised |-> TRUE, cache |-> gen.cache]}
                                     ELSE Pushed(Append(data, v), targetCount, gen.cache) :
                                     v \in gen.values}
                 IN  More(generateData(IF Has(schema, "items") THEN schema.items ELSE schema,
                                       c, seeded))
        \* x-contour-count on a generated array
        Counted(c, v, targetCount) ==
            IF v.kind = "array" /\ targetCount # 0
            THEN {IF p.raised THEN Same(p.cache, InternalError)
                  ELSE Sent(p.cache,
                            JsonResponse(200, Value("array", Slice(p.data, targetCount)))) :
                  p \in Pushed(v.val, targetCount, c)}
            ELSE {Assembled(c, v, ParamNames(path))}
        Send(gen) ==
            IF gen.threw THEN {Same(gen.cache, InternalError)}
            ELSE UNION {Counted(gen.cache, v, ContourCount(operation)) : v \in gen.values}
    IN  IF ~hasSchema
        THEN IF method = "delete"
             THEN {Same(cache, Response(204, "none", <<>>, {}))}
             ELSE {Same(cache, Response(200, "object", <<EmptyMap>>, {}))}
        ELSE Send(generateData(schema, cache, seeded))

\* the 400 sent after the stateful create has already run
RejectedAfterStore(path, body, cache, errors) ==
    Outcome(create(stores, path, body, Uuid(nextUuid), IsoString(now)).stores, cache,
            nextUuid, now, seededKeys, Response(400, "validation", <<>>, errors))

\* the 400 of a failed request-body validation: the handler returns before
\* the stateful and stateless branches
Rejected(path, body, cache, errors) ==
    Outcome(stores, cache, nextUuid, now, seededKeys,
            Response(400, "validation", <<>>, errors))

\* if (config.stateful) with the flag ignored
StatefulModeAlways(flag) == TRUE

\* if (config.stateful)
StatefulMode(flag) == flag

\* everything one invocation of the handler createHandler returns can
\* leave behind, from the current state and the resolver cache given
HandlerOutcomesFrom(path, method, operation, params, body, cached) ==
    LET Same(c, response) == Outcome(stores, c, nextUuid, now, seededKeys, response)
        validated == method \in {"post", "put", "patch"} /\ DOMAIN body # {}
        \* the stateful branch, falling through to the stateless one
        Branches(sf, hasSchema, schema, cache) ==
            IF StatefulMode(stateful) /\ sf.handled THEN sf.outcomes
            ELSE StatelessBranch(path, method, operation, params, body, hasSchema, schema,
                                 cache, ContourDeterministic(operation))
        Checked(validation, hasSchema, schema) ==
            IF validation.threw THEN {Same(validation.cache, InternalError)}
            ELSE IF ~validation.valid
            THEN {Rejected(path, body, validation.cache, validation.errors)}
            ELSE Branches(StatefulBranch(path, method, params, body, hasSchema, schema,
                                         validation.cache, ContourDeterministic(operation)),
                          hasSchema, schema, validation.cache)
        Resolved(rs, hasSchema) ==
            IF rs.threw THEN {Same(rs.cache, InternalError)}
            ELSE Checked(IF validated THEN validateRequestBody(body, operation, rs.cache)
                         ELSE [threw |-> FALSE, valid |-> TRUE, errors |-> {},
                               cache |-> rs.cache],
                         hasSchema, rs.val)
        Selected(response) ==
            IF response.undef THEN {Same(cached, Response(204, "none", <<>>, {}))}
            ELSE Resolved(IF Has(response.val, "schema")
                          THEN resolveSchema(Defined(response.val.schema), cached)
                          ELSE [threw |-> FALSE, val |-> EmptyMap, cache |-> cached],
                          Has(response.val, "schema"))
    IN  Selected(SelectResponse(method, operation))

\* the same with the cache the resolver holds now
HandlerOutcomes(path, method, operation, params, body) ==
    HandlerOutcomesFrom(path, method, operation, params, body, resolvedCache)

\* one request served by the handler generateRoutes registered for
\* (path, method)
createHandler(path, method, operation, params, body) ==
    \E o \in HandlerOutcomes(path, method, operation, params, body) :
        /\ stores' = o.stores
        /\ resolvedCache' = o.cache
        /\ nextUuid' = o.nextUuid
        /\ now' = o.now
        /\ seededKeys' = o.seededKeys
        /\ o.timer => Len(pending) < MaxPending
        /\ res' = Answer(o)
        /\ req' = [path |-> path, method |-> method, operation |-> operation,
                   params |-> params, body |-> body]
        /\ pending' = IF o.timer
                       THEN Append(pending, [request |-> req', response |-> o.res])
                       ELSE pending
        /\ UNCHANGED <<stateful, generation, resolution, server>>

Request ==
    \E route \in Routes :
        \E body \in IF route.method \in {"post", "put", "patch"} THEN Bodies ELSE {EmptyMap} :
            \E params \in [1..Len(ParamNames(route.path)) -> IdValues] :
                createHandler(route.path, route.method, route.operation, params, body)

\* stateManager.clear()
clear ==
    /\ stores' = EmptyMap
    /\ seededKeys' = {}
    /\ req' = [NoRequest EXCEPT !.method = "clear"]
    /\ res' = NoResponse
    /\ UNCHANGED <<stateful, resolvedCache, nextUuid, now, generation, pending, resolution,
                   server>>

\* a delay runs out: the timer callback sends the response computed before
\* the delay
timer ==
    \E i \in 1..Len(pending) :
        /\ req' = pending[i].request
        /\ res' = TimerFires(pending, i).res
        /\ pending' = TimerFires(pending, i).pending
        /\ UNCHANGED <<stateful, stores, resolvedCache, nextUuid, now, seededKeys, generation,
                       resolution, server>>

\* no call of generateFromSchema from outside the handlers yet
NotGenerated == Value("none", "none")

\* createServer not called; the spec has no paths
NoServer == [paths |-> <<>>, built |-> FALSE, routes |-> <<>>, endpointCount |-> 0]

\* no call of the resolver from outside the handlers yet
NoResolution ==
    [op |-> "none", ref |-> <<>>, nested |-> FALSE, spec |-> "none", cached |-> FALSE,
     threw |-> FALSE, schema |-> Undefined]

NoGeneration ==
    [schema |-> EmptyMap, propertyName |-> "", seeded |-> FALSE, value |-> NotGenerated,
     through |-> "generateFromSchema"]

Init ==
    /\ stateful \in BOOLEAN
    /\ stores = EmptyMap
    /\ resolvedCache = EmptyMap
    /\ nextUuid = 1
    /\ now = 1
    /\ req = NoRequest
    /\ res = NoResponse
    /\ seededKeys = {}
    /\ generation = NoGeneration
    /\ pending = <<>>
    /\ resolution = NoResolution
    /\ server = NoServer

Next == Request \/ clear \/ timer

Spec == Init /\ [][Next]_vars

\* ------------------------------------------- generateFromSchema on its own
\* optional keywords of the drawn schemas: each set holds the empty map
\* (keyword absent) and the keyword with some values
FormatOpt == {EmptyMap} \cup {[format |-> f] : f \in Formats \cup {"custom"}}

PatternOpt == {EmptyMap, [pattern |-> "^x+$"]}

MinLengthOpt == {EmptyMap, [minLength |-> 0], [minLength |-> 3]}

MaxLengthOpt == {EmptyMap, [maxLength |-> 0], [maxLength |-> 3]}

StringSchemas ==
    {Spread([type |-> "string"], Spread(Spread(f, p), Spread(mn, mx))) :
        f \in FormatOpt, p \in PatternOpt, mn \in MinLengthOpt, mx \in MaxLengthOpt}

EnumSchemas ==
    { [enum |-> <<"a", "b">>],
      [enum |-> <<"a", "b">>, type |-> "string", format |-> "uuid"],
      [enum |-> <<"a", "b">>, nullable |-> TRUE],
      [enum |-> <<"a", "b">>, allOf |-> <<Widget>>, oneOf |-> <<[type |-> "boolean"]>>],
      [enum |-> <<>>, type |-> "string", format |-> "date"] }

NullableSchemas ==
    { NullableWidget,
      [type |-> "string", nullable |-> TRUE, format |-> "date"],
      [type |-> "string", nullable |-> FALSE, format |-> "time"] }

MinItemsOpt == {EmptyMap, [minItems |-> 0], [minItems |-> 2], [minItems |-> 101]}

MaxItemsOpt == {EmptyMap, [maxItems |-> 1], [maxItems |-> 3], [maxItems |-> 200]}

ArraySchemas ==
    {Spread([type |-> "array"], Spread(i, Spread(mn, mx))) :
        i \in {EmptyMap, [items |-> [type |-> "string", example |-> "A"]]},
        mn \in MinItemsOpt, mx \in MaxItemsOpt}
    \cup {[type |-> "array", items |-> [type |-> "boolean"], maxItems |-> 2],
          [type |-> "array", items |-> [type |-> "string"], minItems |-> 0, maxItems |-> 1],
          [type |-> "array", items |-> [type |-> "integer", minimum |-> 2, maximum |-> 1]]}

Person ==
    [type |-> "object",
     required |-> {"name"},
     properties |-> [name |-> [type |-> "string", example |-> "A"],
                     email |-> [type |-> "string"],
                     age |-> [type |-> "integer", minimum |-> 1, maximum |-> 2]]]

ObjectSchemas ==
    { Widget,
      Person,
      [type |-> "object"],
      [type |-> "object", properties |-> [owner |-> Widget]],
      [type |-> "object", required |-> {"n"},
       properties |-> [n |-> [type |-> "integer", minimum |-> 2, maximum |-> 1]]] }

CompositionSchemas ==
    { [allOf |-> <<Widget, [type |-> "object", required |-> {"species"},
                           properties |-> [species |-> [type |-> "string",
                                                        example |-> "cat"]]]>>],
      [allOf |-> <<[type |-> "boolean"]>>, oneOf |-> <<Widget>>],
      [allOf |-> <<>>],
      [oneOf |-> <<Widget, [type |-> "boolean"]>>, anyOf |-> <<[type |-> "string"]>>],
      [oneOf |-> <<>>],
      [anyOf |-> <<Widget, [type |-> "integer", minimum |-> 1, maximum |-> 1]>>,
       type |-> "boolean"] }

NumberSchemas ==
    { [type |-> "integer", minimum |-> 1, maximum |-> 3],
      [type |-> "integer", minimum |-> 3, maximum |-> 1],
      [type |-> "integer"],
      [type |-> "number", minimum |-> 0, maximum |-> 1] }

OtherSchemas ==
    { [type |-> "boolean"],
      [type |-> "null"],
      EmptyMap,
      [ref |-> RefWidget],
      [ref |-> RefWidget, nullable |-> TRUE, enum |-> <<"a", "b">>] }

\* the schemas above with an example added
ExampleSchemas ==
    {Spread(schema, [example |-> "E"]) :
        schema \in EnumSchemas \cup NullableSchemas \cup ArraySchemas \cup ObjectSchemas
                   \cup CompositionSchemas \cup NumberSchemas \cup OtherSchemas
                   \cup {sch \in StringSchemas : ~Has(sch, "pattern")}}

GenSchemas ==
    StringSchemas \cup EnumSchemas \cup NullableSchemas \cup ArraySchemas \cup ObjectSchemas
    \cup CompositionSchemas \cup NumberSchemas \cup OtherSchemas \cup ExampleSchemas

\* schemas with references, as generateData takes them
DataSchemas ==
    { [ref |-> RefWidget],
      [ref |-> RefTree],
      [type |-> "array", maxItems |-> 1, items |-> [ref |-> RefWidget]],
      [type |-> "object", properties |-> [name |-> [ref |-> RefTree]]],
      [allOf |-> <<[ref |-> RefWidget], [ref |-> RefTree]>>],
      [type |-> "object", properties |-> [name |-> [type |-> "string"]]] }

\* context.propertyName: '' at the top level, else the key of the property
PropertyNames == {"", "code", "email", "firstName", "homeCity"}

GenInit ==
    /\ stateful = FALSE
    /\ stores = EmptyMap
    /\ resolvedCache = EmptyMap
    /\ nextUuid = 1
    /\ now = 1
    /\ req = NoRequest
    /\ res = NoResponse
    /\ seededKeys = {}
    /\ pending = <<>>
    /\ resolution = NoResolution
    /\ server = NoServer
    /\ \/ \E schema \in GenSchemas, propertyName \in PropertyNames, seeded \in BOOLEAN :
            generation = [schema |-> schema, propertyName |-> propertyName,
                          seeded |-> seeded, value |-> NotGenerated,
                          through |-> "generateFromSchema"]
       \/ \E schema \in DataSchemas, seeded \in BOOLEAN :
            generation = [schema |-> schema, propertyName |-> "",
                          seeded |-> seeded, value |-> NotGenerated,
                          through |-> "generateData"]

\* initGenerator(seed) when seeded, then generateFromSchema(schema,
\* { path: [], depth: 0, propertyName })
Generate ==
    /\ generation.through = "generateFromSchema"
    /\ \E value \in generateFromSchema(generation.schema, generation.propertyName, 0,
                                        generation.seeded) :
            generation' = [generation EXCEPT !.value = value]
    /\ UNCHANGED <<stateful, stores, resolvedCache, nextUuid, now, req, res, seededKeys,
                   pending, resolution, server>>

\* generateData(schema) called directly: the schema is resolved against
\* currentSpec, then generated from; an exception of either step leaves
\* the caller without a value
GenerateData ==
    /\ generation.through = "generateData"
    /\ \E data \in {generateData(generation.schema, resolvedCache, generation.seeded)} :
          /\ resolvedCache' = data.cache
          /\ \E value \in IF data.threw THEN {Raised} ELSE data.values :
                generation' = [generation EXCEPT !.value = value]
    /\ UNCHANGED <<stateful, stores, nextUuid, now, req, res, seededKeys, pending,
                   resolution, server>>

GenNext == Generate \/ GenerateData

GenSpec == GenInit /\ [][GenNext]_vars

\* ------------------------------------------------- the resolver on its own
\* the documents resolutions are made against, by name
Docs == [SpecDoc |-> SpecDoc, OtherDoc |-> OtherDoc]

Refs == {RefWidget, RefTree, RefMissingMid, RefMissingLast}

\* the schema handed to resolveSchema: the reference itself, or an object
\* with the reference under a property
Referring(ref, nested) ==
    IF nested THEN [type |-> "object", properties |-> [name |-> [ref |-> ref]]]
    ELSE [ref |-> ref]

RefInit ==
    /\ stateful = FALSE
    /\ stores = EmptyMap
    /\ resolvedCache = EmptyMap
    /\ nextUuid = 1
    /\ now = 1
    /\ req = NoRequest
    /\ res = NoResponse
    /\ seededKeys = {}
    /\ generation = NoGeneration
    /\ pending = <<>>
    /\ resolution = NoResolution
    /\ server = NoServer

\* resolveRef(ref, spec) called directly
ResolveRef ==
    /\ \E ref \in Refs, name \in DOMAIN Docs :
        \E r \in {resolveRef(ref, Docs[name], resolvedCache)} :
            /\ resolvedCache' = r.cache
            /\ resolution' = [op |-> "resolveRef", ref |-> ref, nested |-> FALSE,
                              spec |-> name, cached |-> ref \in DOMAIN resolvedCache,
                              threw |-> r.threw, schema |-> r.schema]
    /\ UNCHANGED <<stateful, stores, nextUuid, now, req, res, seededKeys, generation, pending,
                   server>>

\* resolveSchema(schema, spec) called directly
ResolveSchema ==
    /\ \E ref \in Refs, nested \in BOOLEAN, name \in DOMAIN Docs :
        \E r \in {resolveSchemaIn(Defined(Referring(ref, nested)), Docs[name],
                                  resolvedCache, {})} :
            /\ resolvedCache' = r.cache
            /\ resolution' = [op |-> "resolveSchema", ref |-> ref, nested |-> nested,
                              spec |-> name, cached |-> ref \in DOMAIN resolvedCache,
                              threw |-> r.threw,
                              schema |-> IF r.threw THEN Undefined ELSE Defined(r.val)]
    /\ UNCHANGED <<stateful, stores, nextUuid, now, req, res, seededKeys, generation, pending,
                   server>>

\* clearSchemaCache()
clearSchemaCache ==
    /\ resolvedCache' = EmptyMap
    /\ resolution' = [NoResolution EXCEPT !.op = "clearSchemaCache"]
    /\ UNCHANGED <<stateful, stores, nextUuid, now, req, res, seededKeys, generation, pending,
                   server>>

\* initDataGenerator(spec) of a server being built: the cache is cleared
initDataGenerator ==
    /\ \E name \in DOMAIN Docs :
            resolution' = [NoResolution EXCEPT !.op = "initDataGenerator", !.spec = name]
    /\ resolvedCache' = EmptyMap
    /\ UNCHANGED <<stateful, stores, nextUuid, now, req, res, seededKeys, generation, pending,
                   server>>

RefNext == ResolveRef \/ ResolveSchema \/ clearSchemaCache \/ initDataGenerator

RefSpec == RefInit /\ [][RefNext]_vars

\* ------------------------------------------------------- building a server
HTTP_METHODS == <<"get", "post", "put", "patch", "delete">>

\* method.toUpperCase()
MethodToUpperCase(method) ==
    CASE method = "get" -> "GET"
      [] method = "post" -> "POST"
      [] method = "put" -> "PUT"
      [] method = "patch" -> "PATCH"
      [] method = "delete" -> "DELETE"

\* openApiPath.replace(/\{(\w+)\}/g, ':$1'), scanning from position i
RECURSIVE convertPathFrom(_, _)
convertPathFrom(s, i) ==
    IF i > Len(s) THEN <<>>
    ELSE LET e == WordEnd(s, i + 1)
         IN  IF s[i] = "{" /\ e > i + 1 /\ e <= Len(s) /\ s[e] = "}"
             THEN <<":">> \o SubSeq(s, i + 1, e - 1) \o convertPathFrom(s, e + 1)
             ELSE <<s[i]>> \o convertPathFrom(s, i + 1)

convertPathToExpress(openApiPath) == convertPathFrom(openApiPath, 1)

\* the inner loop of generateRoutes over HTTP_METHODS, from the k-th on;
\* item holds the keys of the path item whose value is truthy
RECURSIVE RoutesOfItem(_, _, _)
RoutesOfItem(expressPath, item, k) ==
    IF k > Len(HTTP_METHODS) THEN <<>>
    ELSE (IF HTTP_METHODS[k] \in item
          THEN <<[method |-> MethodToUpperCase(HTTP_METHODS[k]), path |-> expressPath]>>
          ELSE <<>>)
         \o RoutesOfItem(expressPath, item, k + 1)

\* the routes generateRoutes pushes for Object.entries(spec.paths), from
\* the i-th entry on
RECURSIVE generateRoutesFrom(_, _)
generateRoutesFrom(paths, i) ==
    IF i > Len(paths) THEN <<>>
    ELSE RoutesOfItem(convertPathToExpress(paths[i].path), paths[i].item, 1)
         \o generateRoutesFrom(paths, i + 1)

generateRoutes(paths) == generateRoutesFrom(paths, 1)

\* countEndpoints(spec), from the i-th path item on
RECURSIVE countEndpoints(_, _)
countEndpoints(paths, i) ==
    IF i > Len(paths) THEN 0
    ELSE Cardinality({k \in 1..Len(HTTP_METHODS) : HTTP_METHODS[k] \in paths[i].item})
         + countEndpoints(paths, i + 1)

\* path templates of the drawn specs; the parameter of the last has a
\* character that is not a word character
PathHyphen == <<"/", "{", "w", "-", "d", "}">>

SpecPaths == {PathW, PathWId, PathAIdWId, PathHyphen}

\* keys a path item can hold an operation under; "head" is none of
\* HTTP_METHODS
ItemKeys == {"get", "delete", "head"}

MaxPaths == 2

\* spec.paths in the order of Object.entries: distinct paths
PathLists ==
    UNION {{paths \in [1..n -> [path : SpecPaths, item : SUBSET ItemKeys]] :
               \A i, j \in 1..n : i # j => paths[i].path # paths[j].path} :
           n \in 0..MaxPaths}

RouteInit ==
    /\ stateful = FALSE
    /\ stores = EmptyMap
    /\ resolvedCache = EmptyMap
    /\ nextUuid = 1
    /\ now = 1
    /\ req = NoRequest
    /\ res = NoResponse
    /\ seededKeys = {}
    /\ generation = NoGeneration
    /\ pending = <<>>
    /\ resolution = NoResolution
    /\ \E paths \in PathLists : server = [NoServer EXCEPT !.paths = paths]

\* createServer(spec, config): generateRoutes, then countEndpoints
createServer ==
    /\ ~server.built
    /\ server' = [server EXCEPT !.built = TRUE,
                                !.routes = generateRoutes(server.paths),
                                !.endpointCount = countEndpoints(server.paths, 1)]
    /\ resolvedCache' = EmptyMap
    /\ UNCHANGED <<stateful, stores, nextUuid, now, req, res, seededKeys, generation, pending,
                   resolution>>

RouteNext == createServer

RouteSpec == RouteInit /\ [][RouteNext]_vars

\* ================================================================ claims
\* the items getAll would return for a key, without touching the store
Items(st, key) ==
    IF "default" \in DOMAIN st /\ key \in DOMAIN st["default"]
    THEN st["default"][key] ELSE <<>>

AllKeys(st) == IF "default" \in DOMAIN st THEN DOMAIN st["default"] ELSE {}

\* the id a stateful handler resolves from the request's path parameters
IdOf(request) == request.params[IdParamIndex(ParamNames(request.path))]

\* a segment that is one whole path parameter, {name}
IsParamSegment(seg) ==
    /\ Len(seg) >= 3
    /\ seg[1] = "{"
    /\ seg[Len(seg)] = "}"
    /\ \A i \in 2..(Len(seg) - 1) : seg[i] \notin {"{", "}", "/"}

LiteralSegments(path) == SelectSeq(SplitSlash(path), LAMBDA seg : ~IsParamSegment(seg))

DifferOnlyInParams(p, q) == LiteralSegments(p) = LiteralSegments(q)

SegmentChoices == {<<"w">>, <<"p">>, <<"{", "k", "}">>, <<"{", "w", "I", "d", "}">>}

RECURSIVE JoinSegments(_)
JoinSegments(segs) ==
    IF segs = <<>> THEN <<>> ELSE <<"/">> \o Head(segs) \o JoinSegments(Tail(segs))

\* path templates of up to MaxSegments segments, with and without a
\* trailing slash, and the templates of the routes
PathTemplates ==
    LET plain == UNION {{JoinSegments(segs) : segs \in [1..n -> SegmentChoices]} :
                          n \in 1..MaxSegments}
    IN  plain \cup {t \o <<"/">> : t \in plain} \cup {r.path : r \in Routes}

\* the keys of getStore and of seed agree on templates that differ only in
\* parameter segments
KeyAgreement ==
    \A p \in PathTemplates : \A q \in PathTemplates :
        DifferOnlyInParams(p, q) =>
            /\ getStoreKey(p) = getStoreKey(q)
            /\ seedKey(p) = getStoreKey(q)

\* C2: path templates that differ only in their parameter segments address
\* the same collection in getStore (getAll, getById, create, update, delete)
\* and in seed: an item created, and a batch seeded, through one template
\* is what every such other template reads.
T_C2_CollectionKey ==
    /\ KeyAgreement
    /\ (stateful /\ req.method = "post" /\ res.status = 201) =>
            \A r \in Routes :
                DifferOnlyInParams(r.path, req.path) =>
                    /\ getById(stores, r.path, res.data[1].id).found
                    /\ res.data[1] \in SeqRange(getAll(stores, r.path).items)
    /\ (stateful /\ req.method = "get" /\ ~HasParams(req.path) /\ res.status = 200) =>
            \A r \in Routes :
                DifferOnlyInParams(r.path, req.path) =>
                    getAll(stores, r.path).items = res.data

W_C2_CreatedSeenThroughItemPaths ==
    /\ stateful /\ req.method = "post" /\ req.path = PathW /\ res.status = 201
    /\ getById(stores, PathWId, res.data[1].id).found
    /\ getById(stores, PathKW, res.data[1].id).found

\* a write request with a non-empty body: the ones the handler validates
Validated(request) ==
    request.method \in {"post", "put", "patch"} /\ DOMAIN request.body # {}

HasBodySchema(operation) ==
    Has(operation, "requestBody") /\ Has(operation.requestBody, "schema")

\* the request-body schema holds a $ref that does not resolve
UnresolvableBodySchema(operation) ==
    /\ HasBodySchema(operation)
    /\ resolveSchema(Defined(operation.requestBody.schema), EmptyMap).threw

\* the request-body schema resolves, and ajv cannot compile it
UncompilableBodySchema(operation) ==
    /\ HasBodySchema(operation)
    /\ ~resolveSchema(Defined(operation.requestBody.schema), EmptyMap).threw
    /\ ~AjvCompiles(cleanForValidation(
            resolveSchema(Defined(operation.requestBody.schema), EmptyMap).val))

\* C1 as claimed: in stateful mode a POST with body {name: A}, on an
\* operation whose request-body schema resolves, responds 201 with a
\* generated id and name A; a following GET on an item path of the
\* collection with that id returns an item of the same name; and a GET that
\* follows a DELETE of that id on an item path responds 404.
CE_C1_RoundTrip ==
    [][/\ (/\ stateful /\ req'.method = "post" /\ req'.body = [name |-> "A"]
           /\ \A operation \in {req'.operation} : ~UnresolvableBodySchema(operation)) =>
            /\ res'.status = 201
            /\ res'.data[1].id = Uuid(nextUuid)
            /\ res'.data[1].name = "A"
       /\ (/\ stateful /\ req.method = "post" /\ req.body = [name |-> "A"]
           /\ res.status = 201
           /\ req'.method = "get" /\ HasParams(req'.path)
           /\ getStoreKey(req'.path) = getStoreKey(req.path)
           /\ IdOf(req') = res.data[1].id) =>
            /\ res'.status = 200
            /\ res'.data[1].name = "A"
       /\ (/\ stateful /\ req.method = "delete" /\ HasParams(req.path)
           /\ res.status \in {200, 204}
           /\ req'.method = "get" /\ HasParams(req'.path)
           /\ getStoreKey(req'.path) = getStoreKey(req.path)
           /\ IdOf(req') = IdOf(req)) =>
            res'.status = 404]_vars

\* every stored item, with the key of its collection
StoredItems(st) ==
    UNION {{[key |-> k, index |-> i] : i \in 1..Len(Items(st, k))} : k \in AllKeys(st)}

\* C3 as claimed: the item create returns never carries an id the caller
\* supplied; its id is fresh (no other stored item has it) and it carries a
\* creation timestamp.
CE_C3_CreateIgnoresSuppliedId ==
    (stateful /\ req.method = "post" /\ res.status = 201) =>
        /\ Has(req.body, "id") => res.data[1].id # req.body.id
        /\ Has(res.data[1], "createdAt")
        /\ Cardinality({e \in StoredItems(stores) :
                            Items(stores, e.key)[e.index].id = res.data[1].id}) = 1

\* C4 as claimed: every stored item has an id, the ids within one
\* collection are pairwise distinct, and no item (id) is in two collections.
CE_C4_UniqueIds ==
    /\ \A k \in AllKeys(stores) : \A i \in 1..Len(Items(stores, k)) :
            Has(Items(stores, k)[i], "id")
    /\ \A k \in AllKeys(stores) : \A i, j \in 1..Len(Items(stores, k)) :
            i # j => Items(stores, k)[i].id # Items(stores, k)[j].id
    /\ \A k1, k2 \in AllKeys(stores) :
            k1 # k2 =>
                \A i \in 1..Len(Items(stores, k1)) : \A j \in 1..Len(Items(stores, k2)) :
                    Items(stores, k1)[i].id # Items(stores, k2)[j].id

\* the item update leaves in place of old: old's fields overwritten by the
\* supplied ones, old's id, and the update timestamp
Merged(old, body, isoNow) ==
    [f \in (DOMAIN old) \cup (DOMAIN body) \cup {"updatedAt"} |->
        IF f = "id" THEN old.id
        ELSE IF f = "updatedAt" THEN isoNow
        ELSE IF f \in DOMAIN body THEN body[f]
        ELSE old[f]]

OtherCollectionsSame(before, after, key) ==
    \A k \in (AllKeys(before) \cup AllKeys(after)) \ {key} :
        Items(after, k) = Items(before, k)

CE_C6_DeleteRemoves ==
    [][(stateful /\ req'.method = "delete") =>
        LET key == getStoreKey(req'.path)
            old == Items(stores, key)
            index == FirstIndexWithId(old, IdOf(req'))
        IN  /\ OtherCollectionsSame(stores, stores', key)
            /\ IF index # 0
               THEN res'.status = 204 /\ Items(stores', key) = RemoveAt(old, index)
               ELSE res'.status = 404 /\ Items(stores', key) = old]_vars

\* C7 as claimed: without clear(), a GET on a collection path seeds the
\* collection only if seed has not written that collection before.
CE_C7_SeedsOnce ==
    [][(/\ stateful /\ req'.method = "get" /\ ~HasParams(req'.path)
        /\ Items(stores', getStoreKey(req'.path)) # Items(stores, getStoreKey(req'.path))) =>
            getStoreKey(req'.path) \notin seededKeys]_vars

\* the fields of an item that came from a caller
Supplied(item) == [f \in (DOMAIN item) \ {"id", "createdAt", "updatedAt"} |-> item[f]]

\* C8 as claimed: after a stateful PUT with body B on a stored item, the
\* item's caller-supplied fields are exactly those of B, its id is kept
\* and updatedAt is stamped; after a PATCH the fields B omits keep their
\* values; both respond 200, and 404 when the id is not stored.
CE_C8_PutReplaces ==
    [][(stateful /\ req'.method \in {"put", "patch"} /\ res'.status \in {200, 404}) =>
        LET key == getStoreKey(req'.path)
            old == Items(stores, key)
            index == FirstIndexWithId(old, IdOf(req'))
            new == Items(stores', key)[index]
        IN  IF index = 0 THEN res'.status = 404
            ELSE /\ res'.status = 200
                 /\ new.id = old[index].id
                 /\ new.updatedAt = IsoString(now)
                 /\ req'.method = "put" => Supplied(new) = Supplied(req'.body)
                 /\ req'.method = "patch" =>
                        Supplied(new) = Spread(Supplied(old[index]), Supplied(req'.body))]_vars

\* a write request on an operation whose request-body schema lists a
\* required field the body does not have
MissesRequiredField(request) ==
    /\ request.method \in {"post", "put", "patch"}
    /\ Has(request.operation, "requestBody")
    /\ Has(request.operation.requestBody, "schema")
    /\ Has(request.operation.requestBody.schema, "required")
    /\ request.operation.requestBody.schema.required \ DOMAIN request.body # {}

\* C9 as claimed: a POST, PUT or PATCH whose body misses a required field
\* of the declared request-body schema, the empty body {} included, is
\* answered 400 'Validation failed' with a non-empty list of details, in
\* either mode.
CE_C9_MissingRequiredIs400 ==
    MissesRequiredField(req) =>
        res.status = 400 /\ res.kind = "validation" /\ res.errors # {}

\* C10 as claimed: a validated request whose request-body schema cannot be
\* compiled, or holds a $ref that cannot be resolved, is answered neither
\* 400 nor 500.
CE_C10_ValidatorNever500 ==
    (/\ Validated(req)
     /\ UnresolvableBodySchema(req.operation) \/ UncompilableBodySchema(req.operation)) =>
        res.status \notin {400, 500}

\* C10 as amended: a validated request whose request-body schema resolves
\* and cannot be compiled is answered neither 400 nor 500 (it goes on to
\* the stateful or stateless branch); one whose request-body schema holds
\* an unresolvable $ref is answered 500.
T_C10_CompileFailureAllowsThrough ==
    /\ (Validated(req) /\ UncompilableBodySchema(req.operation)) =>
            res.status \in {200, 201, 404}
    /\ (Validated(req) /\ UnresolvableBodySchema(req.operation)) =>
            res.status = 500

W_C10_UncompilableProceeds ==
    /\ Validated(req) /\ UncompilableBodySchema(req.operation)
    /\ stateful /\ res.status = 200 /\ res.kind = "object"
    /\ Has(res.data[1], "updatedAt")

\* ------------------------------------------------------------------- C11
Methods == {"get", "post", "put", "patch", "delete"}

Statuses == {200, 201, 204, 400, 404, 500}

\* C11: every request a handler took ended in one response with a defined
\* status, sent at once or held by the timer of a delayed operation; a 500
\* carries the generic body and nothing else, and a request whose
\* validation ran into an unresolvable request-body $ref got that 500
T_C11_OneDefinedResponse ==
    req.method \in Methods =>
        /\ \/ res.status \in Statuses
           \/ /\ res = Pending
              /\ \E i \in 1..Len(pending) :
                    /\ pending[i].request = req
                    /\ pending[i].response.status \in Statuses
        /\ res.status = 500 =>
              /\ res.kind = "error"
              /\ res.data = <<[error |-> "Internal Server Error",
                               message |-> "Failed to generate mock response"]>>
              /\ res.errors = {}
        /\ Validated(req) /\ UnresolvableBodySchema(req.operation) => res.status = 500

W_C11_ExceptionBecomes500 ==
    /\ Validated(req) /\ UnresolvableBodySchema(req.operation)
    /\ res.status = 500
    /\ res.data = <<GenericError>>

\* ------------------------------------------------------------------- C12
\* the response object the claim's order picks: successCode, '200', 'default'
FirstOf(responses, keys) ==
    CHOOSE k \in {keys[j] : j \in 1..Len(keys)} :
        /\ k \in DOMAIN responses
        /\ \A j \in 1..Len(keys) : keys[j] \in DOMAIN responses =>
              \E h \in 1..j : keys[h] = k

LookupKeys(method) == <<IF method = "post" THEN "201" ELSE "200", "200", "default">>

\* what a stateless handler answers with for a response object
AnswerKind(method, response) ==
    IF ~Has(response, "schema") THEN IF method = "delete" THEN "none" ELSE "object"
    ELSE IF Has(response.schema, "type") /\ response.schema.type = "array" THEN "array"
    ELSE "object"

CountOverridden(request) ==
    /\ request.method \in Methods
    /\ ContourCount(request.operation) > 0
    /\ \E j \in 1..3 : LookupKeys(request.method)[j] \in DOMAIN request.operation.responses
    /\ AnswerKind(request.method,
                  request.operation.responses[FirstOf(request.operation.responses,
                                                      LookupKeys(request.method))]) = "array"

\* C13: an operation with x-contour-count N on an array-typed response
\* is answered with exactly N elements, in stateless and in stateful mode
CE_C13_CountInBothModes ==
    CountOverridden(req) /\ res.status = 200 =>
        res.kind = "array" /\ Len(res.data) = ContourCount(req.operation)

\* ------------------------------------------------------------------- C14
\* the positions of the id-like parameters of a path
IdLike(names) == {i \in 1..Len(names) : IsIdKey(names[i])}

\* a stateless request answered with a generated object
StatelessObject(request, response) ==
    /\ ~stateful
    /\ request.method = "get"
    /\ response.status = 200
    /\ response.kind = "object"

\* the response schema of a request's operation, resolved
ResponseSchema(request) ==
    resolveSchema(Defined(request.operation.responses[
                              FirstOf(request.operation.responses,
                                      LookupKeys(request.method))].schema),
                  EmptyMap).val

\* every object generateData can return for the request's response schema
GeneratedFor(request) ==
    {v \in generateFromSchema(ResponseSchema(request), "", 0, FALSE) : v.kind = "object"}

StatelessWrite(request, response) ==
    /\ ~stateful
    /\ request.method \in {"post", "put", "patch"}
    /\ \E j \in 1..3 : LookupKeys(request.method)[j] \in DOMAIN request.operation.responses
    /\ Has(request.operation.responses[FirstOf(request.operation.responses,
                                               LookupKeys(request.method))], "schema")
    /\ Has(ResponseSchema(request), "type")
    /\ ResponseSchema(request).type = "object"
    /\ ~UnresolvableBodySchema(request.operation)
    /\ response.status # 400

\* C15: such a request is answered 201 (POST) or 200 (PUT, PATCH) with an
\* object that carries every top-level key of the request body with the
\* request's value
CE_C15_WriteMergesBody ==
    StatelessWrite(req, res) =>
        /\ res.status = IF req.method = "post" THEN 201 ELSE 200
        /\ res.kind = "object"
        /\ \A k \in DOMAIN req.body : Has(res.data[1], k) /\ res.data[1][k] = req.body[k]

\* ------------------------------------------------------------------- C16
\* C16: an endpoint flagged x-contour-deterministic reseeds the random
\* source from its path and method before each request, so in stateless
\* mode the same request asked twice in a row is answered with the same
\* value, null or not
CE_C16_SeededRepeats ==
    [][\A request \in {req'}, response \in {res'} :
        /\ ~stateful
        /\ request.method \in Methods
        /\ ContourDeterministic(request.operation)
        /\ request = req
        => response = res
      ]_vars

\* ------------------------------------------------------------------- C17
\* the members of a schema's enum, as values
EnumValues(schema) == {Literal(schema.enum[i]) : i \in 1..Len(schema.enum)}

\* enum is set and not empty
HasEnum(schema) == Has(schema, "enum") /\ Len(schema.enum) > 0

\* none of the keywords generateFromSchema looks at before the type
PlainlyTyped(schema) ==
    /\ ~Has(schema, "example") /\ ~Has(schema, "ref")
    /\ ~HasEnum(schema)
    /\ ~Has(schema, "allOf") /\ ~Has(schema, "oneOf") /\ ~Has(schema, "anyOf")

\* C17: first match wins, in the order example, nullable, enum, allOf,
\* oneOf/anyOf, type. A schema with an example yields that example, whatever
\* else it holds. Without an example, a resolved schema with an enum yields
\* null (only when nullable) or a member of the enum, whatever compositions
\* and type it holds; with allOf and no enum the outcome is that of the
\* merge, whatever oneOf holds; and a string schema with a known format
\* yields a string of that format, whatever the property is called
T_C17_DispatchOrder ==
    generation.value # NotGenerated =>
        LET schema == generation.schema
            value == generation.value
        IN  /\ Has(schema, "example") => value = Value("string", schema.example)
            /\ ~Has(schema, "example") /\ ~Has(schema, "ref") /\ HasEnum(schema) =>
                  \/ value \in EnumValues(schema)
                  \/ value = Null /\ Has(schema, "nullable") /\ schema.nullable
            /\ /\ ~Has(schema, "example") /\ ~Has(schema, "ref") /\ ~HasEnum(schema)
               /\ Has(schema, "allOf") /\ Has(schema, "oneOf")
               => value.kind \in {"boolean", "raised"}
            /\ /\ PlainlyTyped(schema) /\ Has(schema, "type") /\ schema.type = "string"
               /\ Has(schema, "format") /\ schema.format \in Formats
               /\ value # Null
               => value.kind = "string" /\ value.val \in FormatOutcomes(schema.format)

W_C17_ExampleBeatsEnum ==
    /\ Has(generation.schema, "example") /\ HasEnum(generation.schema)
    /\ Has(generation.schema, "nullable") /\ generation.schema.nullable
    /\ generation.value = Value("string", "E")

\* ------------------------------------------------------------------- C18
\* C18: a resolved schema with a non-empty enum and no example yields
\* members of the enum only, nullable or not
CE_C18_EnumMembership ==
    /\ generation.value # NotGenerated
    /\ ~Has(generation.schema, "example") /\ ~Has(generation.schema, "ref")
    /\ HasEnum(generation.schema)
    => generation.value \in EnumValues(generation.schema)

\* ------------------------------------------------------------------- C19
\* a string schema that reaches generateString
StringTyped(schema) ==
    PlainlyTyped(schema) /\ Has(schema, "type") /\ schema.type = "string"

\* C19: a string generated for a schema with minLength and/or maxLength
\* has a length inside those bounds, whatever format, pattern or property
\* name comes with it
CE_C19_LengthInBounds ==
    /\ generation.value # NotGenerated
    /\ StringTyped(generation.schema)
    /\ generation.value.kind = "string"
    => /\ Has(generation.schema, "minLength") =>
             Len(generation.value.val) >= generation.schema.minLength
       /\ Has(generation.schema, "maxLength") =>
             Len(generation.value.val) <= generation.schema.maxLength

\* ------------------------------------------------------------------- C20
\* an array schema that reaches generateArray
ArrayTyped(schema) ==
    PlainlyTyped(schema) /\ Has(schema, "type") /\ schema.type = "array"

\* C20: an array schema yields an array whose length is at least
\* minItems ?? 1 and at most min(maxItems ?? 5, 100), with or without an
\* items schema and whatever minItems is
CE_C20_LengthInBounds ==
    /\ generation.value # NotGenerated
    /\ ArrayTyped(generation.schema)
    /\ ~(Has(generation.schema, "nullable") /\ generation.schema.nullable)
    => /\ generation.value.kind = "array"
       /\ Len(generation.value.val) >=
             IF Has(generation.schema, "minItems") THEN generation.schema.minItems ELSE 1
       /\ Len(generation.value.val) <=
             Min(IF Has(generation.schema, "maxItems") THEN generation.schema.maxItems ELSE 5,
                 100)

\* ------------------------------------------------------------------- C28
\* C28: a request answered 400 by the request-body validation leaves the
\* State Store as it was: nothing created, updated or seeded
T_C28_RejectedLeavesStore ==
    [][\A response \in {res'} :
        stateful /\ response.status = 400 =>
            /\ stores' = stores
            /\ seededKeys' = seededKeys
            /\ nextUuid' = nextUuid
      ]_vars

W_C28_RejectedWithItems ==
    /\ stateful
    /\ req.method \in {"post", "put", "patch"}
    /\ res.status = 400
    /\ \E key \in AllKeys(stores) : Len(Items(stores, key)) > 0

CE_C21_CyclicYieldsValue ==
    generation.through = "generateData" => generation.value # Raised

\* ------------------------------------------------------------------- C22
\* C22: generateFromSchema returns a value, never an exception, for every
\* resolved schema, malformed ones included
CE_C22_NeverRaises ==
    generation.value # Raised

\* ------------------------------------------------------------------- C26
\* C26: a handler step leaves the timers of earlier requests as they were
\* and answers its own request at once unless its operation is delayed, in
\* which case (stateless, with a response schema) nothing is sent and its
\* computed response is put behind the others; a timer step sends exactly
\* the response kept for its request, removes that timer only and changes
\* nothing else
T_C26_DelayHoldsOnlyItsOwn ==
    [][\A request \in {req'}, response \in {res'}, before \in {pending}, after \in {pending'} :
        /\ request.method \in Methods /\ Len(after) >= Len(before) =>
              /\ SubSeq(after, 1, Len(before)) = before
              /\ ContourDelay(request.operation) = 0 =>
                    response.status \in Statuses /\ after = before
              /\ ~stateful /\ ContourDelay(request.operation) > 0 =>
                    \/ response = InternalError /\ after = before
                    \/ /\ response = Pending
                       /\ Len(after) = Len(before) + 1
                       /\ after[Len(after)].request = request
                       /\ \E o \in HandlerOutcomes(request.path, request.method,
                                    request.operation, request.params, request.body) :
                             o.timer /\ o.res = after[Len(after)].response
        /\ Len(after) < Len(before) =>
              /\ \E i \in 1..Len(before) :
                    /\ after = RemoveAt(before, i)
                    /\ request = before[i].request
                    /\ response = before[i].response
              /\ UNCHANGED <<stores, resolvedCache, nextUuid, now, seededKeys>> ]_vars

\* a request answered at once while the response of a delayed one waits
W_C26_AnsweredWhileOtherWaits ==
    /\ Len(pending) > 0
    /\ req.method \in Methods
    /\ req # pending[1].request
    /\ res.status \in {200, 201}

\* ------------------------------------------------------------------- C23
\* the segments of a reference
Parts(ref) == SplitSlash(RemoveHashSlash(ref))

\* the document has an object at every segment but possibly the last
ParentExists(ref, name) ==
    SubSeq(Parts(ref), 1, Len(Parts(ref)) - 1) \in DOMAIN Docs[name]

\* the document has an object at every segment
TargetExists(ref, name) == Parts(ref) \in DOMAIN Docs[name]

\* every cached node is the node of this document: the cache was filled
\* by resolutions against it alone
CacheOf(cache, name) ==
    \A ref \in DOMAIN cache : cache[ref] = resolveRef(ref, Docs[name], EmptyMap).schema

NodeAt(ref, name) == resolveRef(ref, Docs[name], EmptyMap).schema

\* C30: resolveRef(ref, spec) returns the node found at ref in the spec
\* passed to the call, whatever was resolved or cleared before
CE_C30_NodeOfThePassedSpec ==
    resolution.op = "resolveRef" /\ ~resolution.threw =>
        resolution.schema = NodeAt(resolution.ref, resolution.spec)

\* ------------------------------------------------------------------- C25
\* the path with every {param} written :param, param being whatever
\* stands between the braces
RECURSIVE ColonParams(_, _)
ColonParams(s, i) ==
    IF i > Len(s) THEN <<>>
    ELSE LET j == FirstClose(s, i + 1)
         IN  IF s[i] = "{" /\ j > i + 1
             THEN <<":">> \o SubSeq(s, i + 1, j - 1) \o ColonParams(s, j + 1)
             ELSE <<s[i]>> \o ColonParams(s, i + 1)

\* the (path, method) pairs of the spec, method among HTTP_METHODS
Pairs(paths) ==
    {<<i, k>> \in (1..Len(paths)) \X (1..Len(HTTP_METHODS)) : HTTP_METHODS[k] \in paths[i].item}

\* how many entries of the route list stand for the pair
Entries(routes, path, method) ==
    Cardinality({n \in 1..Len(routes) :
                    /\ routes[n].method = MethodToUpperCase(method)
                    /\ routes[n].path = ColonParams(path, 1)})

\* C25: the endpoint count createServer reports, the length of the route
\* list and the number of (path, method) pairs of the spec are equal, and
\* each pair has exactly one entry in the list, its path with {param}
\* written :param
CE_C25_OneRoutePerPair ==
    server.built =>
        /\ server.endpointCount = Len(server.routes)
        /\ Len(server.routes) = Cardinality(Pairs(server.paths))
        /\ \A pair \in Pairs(server.paths) :
              Entries(server.routes, server.paths[pair[1]].path, HTTP_METHODS[pair[2]]) = 1

====
